---- MODULE Spec2Model ----
(***************************************************************************)
(* Model of the persona-chatbot backend (app/routes/chatbot.py,            *)
(* app/routes/admin.py, app/database.py, app/embeddings.py).               *)
(*                                                                         *)
(* Request handlers are independent tasks that share only the backing      *)
(* stores; a handler is modelled as a sequence of steps, one per store     *)
(* call, and the steps of different handlers interleave.                   *)
(*                                                                         *)
(* The routes address the conversation store by conversation_id, while     *)
(* the rows written by app/database.py carry visitor_id, chatbot_id and    *)
(* user_id.  A message row of the model carries both: the conversation     *)
(* the turn resolved and the identifiers of the pair it was resolved from. *)
(*                                                                         *)
(* get_or_create_chatbot, get_or_create_visitor and                        *)
(* get_or_create_conversation are imported from app.database by the        *)
(* routes but are not defined in it; they are modelled from the            *)
(* specification of the Identity Resolver.                                 *)
(***************************************************************************)
EXTENDS Integers, Sequences, FiniteSets, TLC

\* ------------------------------------------------------------------ bounds
NumProcs == 3
NumVisitors == 1
MaxConvs == 2
MaxMsgs == 2
MaxClock == 1

\* ------------------------------------------------------- program constants
history_limit == 10
default_limit == 50

Procs == 1..NumProcs
VisitorExtIds == 1..NumVisitors
Chatbots == {1, 2}
RequestedChatbots == {1, 2, 3}
ConvIds == 1..MaxConvs
Null == 0

VARIABLES
    supabase,            \* "client" or "none": the module-level client of app/database.py
    fkEnforced,          \* whether messages.conversation_id is a foreign key of the schema
    visitors,            \* rows of the visitors table (external ids that have a row)
    conversations,       \* rows of the conversations table
    messages,            \* rows of the messages table
    in_memory_messages,  \* the in-memory fallback: visitor_id -> list of rows
    nextConv,            \* next conversation id the store assigns
    nextMsg,             \* next message id
    now,                 \* wall clock, in whole seconds
    pc,                  \* position of each handler
    req,                 \* locals of each handler
    ret,                 \* response of each handler
    deletedConvs,        \* history: the conversation rows that were deleted
    chromaAdd,           \* what collection.add does with an id the collection holds
    collection,          \* the "portfolio_data" collection of the vector index
    nextUuid,            \* next uuid4 handed to a document that has no id
    notes_table,         \* rows of the notes table
    nextNote,            \* number of the next row of the notes table
    tasks,               \* background tasks scheduled and not yet run
    call,                \* the arguments of a call of a function of the pipeline
    result,              \* what the call returned
    api_key,             \* OPENAI_API_KEY of the environment: "set" or "missing"
    server,              \* the process: "off", "checked", "serving" or "exited"
    turn,                \* one turn on its way through a chat handler
    visitor_rows,        \* rows of the visitors table, with the ids they were given
    in_memory_profile,   \* the module-level profile dictionary of database.py
    profiles,            \* rows of the profiles table
    projects             \* rows of the projects table

storeVars == <<supabase, fkEnforced, visitors, conversations, messages,
               in_memory_messages, nextConv, nextMsg, now>>
indexVars == <<chromaAdd, collection, nextUuid, notes_table, nextNote, tasks>>
callVars == <<call, result>>
procVars == <<api_key, server>>
turnVars == <<turn>>
visitorVars == <<visitor_rows>>
profileVars == <<in_memory_profile, profiles, projects>>
chatVars == <<supabase, fkEnforced, visitors, conversations, messages,
              in_memory_messages, nextConv, nextMsg, now, pc, req, ret, deletedConvs>>
vars == <<supabase, fkEnforced, visitors, conversations, messages,
          in_memory_messages, nextConv, nextMsg, now, pc, req, ret, deletedConvs,
          chromaAdd, collection, nextUuid, notes_table, nextNote, tasks, call, result,
          api_key, server, turn, visitor_rows, in_memory_profile, profiles, projects>>

\* ------------------------------------------------------ identity resolver
OwnerOf(b) == 10 + b
Owners == {OwnerOf(b) : b \in Chatbots}

\* get_or_create_chatbot(chatbot_id=...): the chatbot record (a set of one row),
\* or no record
get_or_create_chatbot(b) == IF b \in Chatbots THEN {[id |-> b, user_id |-> OwnerOf(b)]} ELSE {}

\* the internal id of a visitor row: distinct from the external id it maps
VisitorUUID(ext) == 100 + ext
VisitorDbIds == {VisitorUUID(v) : v \in VisitorExtIds}

ConvRowsOf(b, v) == {c \in conversations : c.chatbot_id = b /\ c.visitor_id = v}

DeletedOf(b, v) == {c \in deletedConvs : c.chatbot_id = b /\ c.visitor_id = v}

NoReq == [kind |-> "none", chatbot_id |-> Null, visitor_ext |-> Null, visitor_id |-> Null,
          conversation_id |-> Null, user |-> Null, limit |-> 0, order |-> "none",
          created_at |-> 0, startDel |-> 0, conflict |-> FALSE, blank |-> FALSE]
NoRet == [status |-> "none", history |-> <<>>]

\* ------------------------------------------------------ conversation store
Min(a, b) == IF a < b THEN a ELSE b

Take(s, n) == SubSeq(s, 1, Min(n, Len(s)))

\* sorted(..., key=created_at, reverse=True): a stable sort, newest first
RECURSIVE SortFrom(_, _)
SortFrom(list, t) ==
    IF t < 0 THEN <<>>
    ELSE SelectSeq(list, LAMBDA m : m.created_at = t) \o SortFrom(list, t - 1)

SortedNewestFirst(list) == SortFrom(list, MaxClock)

IsNewestFirst(s) == \A i \in 1..Len(s) : \A j \in 1..Len(s) :
    i < j => s[i].created_at >= s[j].created_at

IsOldestFirst(s) == \A i \in 1..Len(s) : \A j \in 1..Len(s) :
    i < j => s[i].created_at <= s[j].created_at

\* .order("created_at", desc=True).limit(limit): the rows newest first, rows of
\* equal created_at in any order, cut to limit
DbSelect(rows, limit) ==
    LET n == Cardinality(rows)
        full == {f \in [1..n -> rows] :
                    /\ \A i \in 1..n : \A j \in 1..n : i # j => f[i] # f[j]
                    /\ IsNewestFirst(f)}
    IN {Take(f, limit) : f \in full}

\* get_in_memory_chat_history(limit, visitor_id, target_user_id, chatbot_id)
get_in_memory_chat_history(limit, visitor_id, chatbot_id) ==
    IF visitor_id # Null /\ visitor_id \in DOMAIN in_memory_messages
    THEN LET candidate == IF chatbot_id # Null
                          THEN SelectSeq(in_memory_messages[visitor_id],
                                         LAMBDA m : m.chatbot_id = chatbot_id)
                          ELSE in_memory_messages[visitor_id]
         IN Take(SortedNewestFirst(candidate), limit)
    ELSE <<>>

\* get_chat_history: the set of lists a read can return. outcome is what the
\* durable store does with the queries: "ok", "retry" (the first query fails,
\* the retry with only the visitor_id filter succeeds) or "mem" (both fail).
get_chat_history(limit, visitor_id, chatbot_id, conversation_id, outcome) ==
    IF supabase = "none"
    THEN IF visitor_id # Null /\ visitor_id \in DOMAIN in_memory_messages
         THEN {Take(SortedNewestFirst(in_memory_messages[visitor_id]), limit)}
         ELSE {<<>>}
    ELSE IF outcome = "ok"
    THEN DbSelect({m \in messages :
                      /\ (visitor_id # Null => m.visitor_id = visitor_id)
                      /\ (chatbot_id # Null => m.chatbot_id = chatbot_id)
                      /\ (conversation_id # Null => m.conversation_id = conversation_id)},
                  limit)
    ELSE IF outcome = "retry" /\ chatbot_id # Null /\ visitor_id # Null
    THEN DbSelect({m \in messages : m.visitor_id = visitor_id}, limit)
    ELSE {get_in_memory_chat_history(limit, visitor_id, chatbot_id)}

ReadOutcomes == {"ok", "retry", "mem"}

\* ----------------------------------------------------------- vector index
\* A text is named by its version; a chunk of it by the version and the
\* characters [from, to) it holds.
AddModes == {"ignore", "raise", "upsert"}
IndexUsers == Owners
DefaultUser == 10
NoIndex == Null - 1
chunk_size == 1000
overlap == 100

ProfileFields == {"name", "location", "bio", "skills", "experience", "interests"}

Whole(tag, ver) == <<tag, ver>>
Slice(ver, from, to) == <<"", ver, from, to>>

Chunk(id, document, category, subcategory, user, source, index, total) ==
    [id |-> id, document |-> document, category |-> category,
     subcategory |-> subcategory, user_id |-> user, source_id |-> source,
     chunk_index |-> index, total_chunks |-> total]

IdsOf(chunks) == {c.id : c \in chunks}

\* collection.add(documents, metadatas, ids)
CollectionAdd(coll, chunks) ==
    LET existing == {c \in chunks : c.id \in IdsOf(coll)}
    IN IF chromaAdd = "raise"
       THEN IF existing # {} THEN [coll |-> coll, ok |-> FALSE]
            ELSE [coll |-> coll \cup chunks, ok |-> TRUE]
       ELSE IF chromaAdd = "ignore"
       THEN [coll |-> coll \cup (chunks \ existing), ok |-> TRUE]
       ELSE [coll |-> {c \in coll : c.id \notin IdsOf(chunks)} \cup chunks, ok |-> TRUE]

effective_user_id(user_id, profile_user) ==
    IF user_id # Null THEN user_id
    ELSE IF profile_user # Null THEN profile_user ELSE DefaultUser

\* the documents, metadatas and ids add_profile_to_vector_db builds
ProfileChunks(profile, user) ==
    {Chunk(<<f, user>>, Whole("", profile[f]), "profile", f, user, Null, NoIndex, NoIndex) :
        f \in {g \in ProfileFields : profile[g] # Null}}

\* add_profile_to_vector_db(profile_data, user_id): the collection afterwards
\* and the value returned
add_profile_to_vector_db(coll, profile, user_id, deleteOk) ==
    LET user == effective_user_id(user_id, profile.user_id)
        cleared == IF deleteOk
                   THEN {c \in coll : ~(c.category = "profile" /\ c.user_id = user)}
                   ELSE coll
        chunks == ProfileChunks(profile, user)
    IN IF chunks = {} THEN [coll |-> cleared, ok |-> TRUE]
       ELSE CollectionAdd(cleared, chunks)

\* range(0, len(extracted_text), chunk_size - overlap)
NumChunks(len) == (len + (chunk_size - overlap) - 1) \div (chunk_size - overlap)

\* the content chunks of a document: extracted_text[i:i + chunk_size]
ContentChunks(doc, document_id, user) ==
    IF doc.len > chunk_size
    THEN {Chunk(<<"document_content", document_id, k, user>>,
                Slice(doc.ver, k * (chunk_size - overlap),
                      Min(k * (chunk_size - overlap) + chunk_size, doc.len)),
                "document", "content", user, document_id, k, NumChunks(doc.len)) :
             k \in 0..(NumChunks(doc.len) - 1)}
    ELSE {Chunk(<<"document_content", document_id, user>>, Slice(doc.ver, 0, doc.len),
                "document", "content", user, document_id, NoIndex, NoIndex)}

DocumentChunks(doc, document_id, user) ==
    {Chunk(<<"document_title", document_id, user>>, Whole("Document Title: ", doc.title),
           "document", "title", user, document_id, NoIndex, NoIndex)}
    \cup (IF doc.description # Null
          THEN {Chunk(<<"document_description", document_id, user>>,
                      Whole("Document Description: ", doc.description),
                      "document", "description", user, document_id, NoIndex, NoIndex)}
          ELSE {})
    \cup ContentChunks(doc, document_id, user)

\* a variant that indexes every save under a fresh id
add_document_fresh_id(coll, doc, document_id, user) ==
    IF doc.len = 0 THEN [coll |-> coll, ok |-> FALSE]
    ELSE CollectionAdd(coll, DocumentChunks(doc, document_id + Cardinality(coll) + 1, user))

\* add_document_to_vector_db(document_data, user_id); document_id is the
\* document's id, or the uuid4 generated for a document that has none
add_document_to_vector_db(coll, doc, document_id, user) ==
    IF doc.len = 0 THEN [coll |-> coll, ok |-> FALSE]
    ELSE CollectionAdd(coll, DocumentChunks(doc, document_id, user))

\* the chunks embed_and_store_notes builds from the notes that have an id
\* and a content
RECURSIVE NoteChunks(_, _)
NoteChunks(notes, user) ==
    IF notes = <<>> THEN {}
    ELSE LET note == Head(notes)
         IN (IF note.id = Null \/ note.content = Null THEN {}
             ELSE {Chunk(<<"note", user, note.id>>, Whole("User Note: ", note.content),
                         "note", "", user, note.id, NoIndex, NoIndex)})
            \cup NoteChunks(Tail(notes), user)

\* embed_and_store_notes(user_id, notes)
embed_and_store_notes(coll, user, notes) ==
    IF user = Null \/ notes = <<>> \/ NoteChunks(notes, user) = {}
    THEN [coll |-> coll, ok |-> TRUE]
    ELSE CollectionAdd(coll, NoteChunks(notes, user))

\* ------------------------------------------------------------------- Init
\* no turn is on its way
NoTurn ==
    [pc |-> "idle", entry |-> "none", chatbot_id |-> Null, target_user_id |-> Null,
     log_returns |-> "bool", owner |-> Null, conversation_id |-> Null,
     failure |-> "none", search |-> "none", reply |-> "none", log_result |-> "none",
     persisted |-> "no", index |-> "none", events |-> <<>>, status |-> 0]

\* the process was started with the key and serves requests
Running ==
    /\ api_key = "set"
    /\ server = "serving"

\* the stores are empty and no request is being served
Empty ==
    /\ visitors = {}
    /\ visitor_rows = {}
    /\ in_memory_profile = [bio |-> 0, project_list |-> {}]
    /\ profiles = {}
    /\ projects = {}
    /\ conversations = {}
    /\ messages = {}
    /\ in_memory_messages = [v \in VisitorDbIds |-> <<>>]
    /\ nextConv = 1
    /\ nextMsg = 1
    /\ now = 0
    /\ pc = [p \in Procs |-> "idle"]
    /\ req = [p \in Procs |-> NoReq]
    /\ ret = [p \in Procs |-> NoRet]
    /\ deletedConvs = {}
    /\ collection = {}
    /\ nextUuid = 1
    /\ notes_table = {}
    /\ nextNote = 1
    /\ tasks = {}

NoCall == [fn |-> "none"]
NoResult == [done |-> FALSE]

\* the conversation store: with or without a client, on either schema
Init ==
    /\ turn = NoTurn
    /\ Running
    /\ call = NoCall
    /\ result = NoResult
    /\ supabase \in {"client", "none"}
    /\ fkEnforced \in (IF supabase = "client" THEN BOOLEAN ELSE {FALSE})
    /\ chromaAdd = "ignore"
    /\ Empty

\* the index: on any behaviour of collection.add
InitIndex ==
    /\ turn = NoTurn
    /\ Running
    /\ call = NoCall
    /\ result = NoResult
    /\ supabase = "client"
    /\ fkEnforced = FALSE
    /\ chromaAdd \in AddModes
    /\ Empty

Finish(p, status, history) ==
    /\ pc' = [pc EXCEPT ![p] = "done"]
    /\ ret' = [ret EXCEPT ![p] = [status |-> status, history |-> history]]

\* Each task serves one request; tasks are interchangeable, so they are
\* started in the order of their numbers.
Arrives(p) == pc[p] = "idle" /\ \A q \in Procs : q < p => pc[q] # "idle"

\* get_or_create_visitor(visitor_id, visitor_name): the row of the external id,
\* inserted when absent; the handler goes on with the row's id
EnsureVisitor(p, kind, b, v) ==
    /\ visitors' = visitors \cup {v}
    /\ req' = [req EXCEPT ![p] = [NoReq EXCEPT !.kind = kind, !.chatbot_id = b,
                                      !.visitor_ext = v, !.visitor_id = VisitorUUID(v),
                                      !.user = OwnerOf(b)]]
    /\ pc' = [pc EXCEPT ![p] = "conv_query"]

\* ------------------------------------------------- POST /chat  (chat)
\* the request arrives: input validation, the chatbot lookup and the visitor
StartChat(p, b, v, empty) ==
    /\ Arrives(p)
    /\ IF empty
       THEN /\ Finish(p, "fixed_reply", <<>>)
            /\ UNCHANGED <<req, visitors>>
       ELSE IF get_or_create_chatbot(b) = {}
       THEN \* HTTPException(404) raised inside the try: the handler's own
            \* except Exception answers with the fallback reply
            /\ Finish(p, "fallback_reply", <<>>)
            /\ UNCHANGED <<req, visitors>>
       ELSE /\ EnsureVisitor(p, "chat", b, v)
            /\ UNCHANGED ret
    /\ UNCHANGED <<supabase, fkEnforced, conversations, messages, in_memory_messages,
                   nextConv, nextMsg, now, deletedConvs>>
    /\ UNCHANGED indexVars
    /\ UNCHANGED <<callVars, procVars, turnVars, visitorVars, profileVars>>

\* GET /history (get_chat_history_endpoint): the request arrives
StartHistory(p, b, v) ==
    /\ Arrives(p)
    /\ EnsureVisitor(p, "history", b, v)
    /\ UNCHANGED <<supabase, fkEnforced, conversations, messages, in_memory_messages,
                   nextConv, nextMsg, now, ret, deletedConvs>>
    /\ UNCHANGED indexVars
    /\ UNCHANGED <<callVars, procVars, turnVars, visitorVars, profileVars>>

AfterResolve(p) ==
    IF req[p].kind = "chat" THEN "history"
    ELSE IF req[p].kind = "main_chat" THEN "empty_check"
    ELSE "h_read"

\* what a handler does when get_or_create_conversation raises
ResolveFailed(p) ==
    IF req[p].kind = "chat"
    THEN Finish(p, "fallback_reply", <<>>)
    ELSE Finish(p, "http_error", <<>>)

\* get_or_create_conversation, step 1: query the row of the pair
ConvQuery(p) ==
    /\ pc[p] = "conv_query"
    /\ LET found == ConvRowsOf(req[p].chatbot_id, req[p].visitor_id)
           started == [req EXCEPT ![p].startDel =
                          Cardinality(DeletedOf(req[p].chatbot_id, req[p].visitor_id))]
       IN IF found # {}
          THEN /\ \E c \in found :
                      req' = [started EXCEPT ![p].conversation_id = c.id]
               /\ pc' = [pc EXCEPT ![p] = AfterResolve(p)]
          ELSE /\ req' = started
               /\ pc' = [pc EXCEPT ![p] = "conv_insert"]
    /\ UNCHANGED <<storeVars, ret, deletedConvs>>
    /\ UNCHANGED indexVars
    /\ UNCHANGED <<callVars, procVars, turnVars, visitorVars, profileVars>>

\* the unique constraint on (chatbot_id, visitor_id) rejects the insert
InsertConflictsNever(b, v) == FALSE

InsertConflicts(b, v) == ConvRowsOf(b, v) # {}

\* get_or_create_conversation, step 2: the owner is taken from the chatbot
\* record and the row inserted; a conflict leads to the refetch
ConvInsert(p) ==
    /\ pc[p] = "conv_insert"
    /\ IF get_or_create_chatbot(req[p].chatbot_id) = {}
       THEN /\ ResolveFailed(p)
            /\ UNCHANGED <<req, conversations, nextConv>>
       ELSE IF InsertConflicts(req[p].chatbot_id, req[p].visitor_id)
       THEN /\ pc' = [pc EXCEPT ![p] = "conv_refetch"]
            /\ req' = [req EXCEPT ![p].conflict = TRUE]
            /\ UNCHANGED <<ret, conversations, nextConv>>
       ELSE /\ nextConv <= MaxConvs
            /\ conversations' = conversations \cup
                   {[id |-> nextConv, chatbot_id |-> req[p].chatbot_id,
                     visitor_id |-> req[p].visitor_id,
                     user_id |-> OwnerOf(req[p].chatbot_id)]}
            /\ nextConv' = nextConv + 1
            /\ req' = [req EXCEPT ![p].conversation_id = nextConv]
            /\ pc' = [pc EXCEPT ![p] = AfterResolve(p)]
            /\ UNCHANGED ret
    /\ UNCHANGED <<supabase, fkEnforced, visitors, messages, in_memory_messages,
                   nextMsg, now, deletedConvs>>
    /\ UNCHANGED indexVars
    /\ UNCHANGED <<callVars, procVars, turnVars, visitorVars, profileVars>>

\* a variant that answers a conflict with the id it tried to insert
ConvRefetchOwnId(p) ==
    /\ pc[p] = "conv_refetch"
    /\ req' = [req EXCEPT ![p].conversation_id = MaxConvs + p]
    /\ pc' = [pc EXCEPT ![p] = AfterResolve(p)]
    /\ UNCHANGED <<storeVars, ret, deletedConvs>>
    /\ UNCHANGED indexVars
    /\ UNCHANGED <<callVars, procVars, turnVars, visitorVars, profileVars>>

\* get_or_create_conversation, step 3: refetch after the conflict
ConvRefetch(p) ==
    /\ pc[p] = "conv_refetch"
    /\ LET found == ConvRowsOf(req[p].chatbot_id, req[p].visitor_id)
       IN IF found # {}
          THEN /\ \E c \in found : req' = [req EXCEPT ![p].conversation_id = c.id]
               /\ pc' = [pc EXCEPT ![p] = AfterResolve(p)]
               /\ UNCHANGED ret
          ELSE /\ ResolveFailed(p)
               /\ UNCHANGED req
    /\ UNCHANGED <<storeVars, deletedConvs>>
    /\ UNCHANGED indexVars
    /\ UNCHANGED <<callVars, procVars, turnVars, visitorVars, profileVars>>

\* chat: get_chat_history(conversation_id, limit=history_limit), then the reply
\* is generated from it
ReadHistory(p, outcome) ==
    /\ pc[p] = "history"
    /\ \E h \in get_chat_history(history_limit, req[p].visitor_id, req[p].chatbot_id,
                                   req[p].conversation_id, outcome) :
          ret' = [ret EXCEPT ![p].history = h]
    /\ pc' = [pc EXCEPT ![p] = "log_ts"]
    /\ UNCHANGED <<storeVars, req, deletedConvs>>
    /\ UNCHANGED indexVars
    /\ UNCHANGED <<callVars, procVars, turnVars, visitorVars, profileVars>>

\* log_chat_message: timestamp = time.strftime(..., time.gmtime())
LogTimestamp(p) ==
    /\ pc[p] = "log_ts"
    /\ req' = [req EXCEPT ![p].created_at = now]
    /\ pc' = [pc EXCEPT ![p] = "log_insert"]
    /\ UNCHANGED <<storeVars, ret, deletedConvs>>
    /\ UNCHANGED indexVars
    /\ UNCHANGED <<callVars, procVars, turnVars, visitorVars, profileVars>>

MessageRow(p) ==
    [id |-> nextMsg, conversation_id |-> req[p].conversation_id,
     visitor_id |-> req[p].visitor_id, chatbot_id |-> req[p].chatbot_id,
     user_id |-> req[p].user, created_at |-> req[p].created_at]

\* the insert into the messages table is rejected by the schema
InsertRejected(row) ==
    fkEnforced /\ \A c \in conversations : c.id # row.conversation_id

\* log_chat_message: the row goes to the in-memory list when there is no
\* client, to the messages table otherwise, and to the in-memory list
\* (log_message_in_memory) when the insert fails
LogInsert(p, insertFails) ==
    /\ pc[p] = "log_insert"
    /\ nextMsg <= MaxMsgs
    /\ LET row == MessageRow(p)
       IN IF supabase = "none" \/ insertFails \/ InsertRejected(row)
          THEN /\ in_memory_messages' =
                      [in_memory_messages EXCEPT ![row.visitor_id] = Append(@, row)]
               /\ UNCHANGED messages
          ELSE /\ messages' = messages \cup {row}
               /\ UNCHANGED in_memory_messages
    /\ nextMsg' = nextMsg + 1
    /\ pc' = [pc EXCEPT ![p] = "done"]
    /\ ret' = [ret EXCEPT ![p].status = "reply"]
    /\ UNCHANGED <<supabase, fkEnforced, visitors, conversations, nextConv, now, req,
                   deletedConvs>>
    /\ UNCHANGED indexVars
    /\ UNCHANGED <<callVars, procVars, turnVars, visitorVars, profileVars>>

\* GET /history: get_chat_history(conversation_id, limit)
\* limit and order are what the caller asked for; the read has no order
\* parameter to pass the latter to
HistoryRead(p, limit, order, outcome) ==
    /\ pc[p] = "h_read"
    /\ \E h \in get_chat_history(limit, req[p].visitor_id, req[p].chatbot_id,
                                   req[p].conversation_id, outcome) :
          Finish(p, "history", h)
    /\ req' = [req EXCEPT ![p].limit = limit, ![p].order = order]
    /\ UNCHANGED <<storeVars, deletedConvs>>
    /\ UNCHANGED indexVars
    /\ UNCHANGED <<callVars, procVars, turnVars, visitorVars, profileVars>>

\* ------------------------- DELETE /chat/conversations/{conversation_id}
\* verify_conversation_owner(conversation_id, user_id)
\* ownership reduced to the conversation existing
conversation_exists(c, u) ==
    \E row \in conversations : row.id = c

verify_conversation_owner(c, u) ==
    \E row \in conversations : row.id = c /\ row.user_id = u

\* the request arrives; without a client it is answered 500, and 403 when
\* the authenticated user does not own the conversation
StartDelete(p, c, u) ==
    /\ Arrives(p)
    /\ IF supabase = "none"
       THEN /\ Finish(p, "http_error", <<>>)
            /\ UNCHANGED req
       ELSE /\ req' = [req EXCEPT ![p] = [NoReq EXCEPT !.kind = "delete",
                                              !.conversation_id = c, !.user = u]]
            /\ IF verify_conversation_owner(c, u)
               THEN /\ pc' = [pc EXCEPT ![p] = "d_msgs"]
                    /\ UNCHANGED ret
               ELSE Finish(p, "forbidden", <<>>)
    /\ UNCHANGED <<storeVars, deletedConvs>>
    /\ UNCHANGED indexVars
    /\ UNCHANGED <<callVars, procVars, turnVars, visitorVars, profileVars>>

\* step 1: delete the messages of the conversation
DeleteMessages(p) ==
    /\ pc[p] = "d_msgs"
    /\ messages' = {m \in messages : m.conversation_id # req[p].conversation_id}
    /\ pc' = [pc EXCEPT ![p] = "d_conv"]
    /\ UNCHANGED <<supabase, fkEnforced, visitors, conversations, in_memory_messages,
                   nextConv, nextMsg, now, req, ret, deletedConvs>>
    /\ UNCHANGED indexVars
    /\ UNCHANGED <<callVars, procVars, turnVars, visitorVars, profileVars>>

\* step 2: delete the conversation row (filtered by id and user_id)
DeleteConversation(p) ==
    /\ pc[p] = "d_conv"
    /\ LET gone == {c \in conversations :
                       c.id = req[p].conversation_id /\ c.user_id = req[p].user}
       IN IF fkEnforced /\ gone # {}
             /\ \E m \in messages : m.conversation_id = req[p].conversation_id
          THEN \* the schema rejects the delete: the except branch answers 500
               /\ Finish(p, "http_error", <<>>)
               /\ UNCHANGED <<conversations, deletedConvs>>
          ELSE /\ conversations' = conversations \ gone
               /\ deletedConvs' = deletedConvs \cup gone
               /\ Finish(p, "deleted", <<>>)
    /\ UNCHANGED <<supabase, fkEnforced, visitors, messages, in_memory_messages,
                   nextConv, nextMsg, now, req>>
    /\ UNCHANGED indexVars
    /\ UNCHANGED <<callVars, procVars, turnVars, visitorVars, profileVars>>

\* a second passes
Tick ==
    /\ now < MaxClock
    /\ now' = now + 1
    /\ UNCHANGED <<supabase, fkEnforced, visitors, conversations, messages,
                   in_memory_messages, nextConv, nextMsg, pc, req, ret, deletedConvs>>
    /\ UNCHANGED indexVars
    /\ UNCHANGED <<callVars, procVars, turnVars, visitorVars, profileVars>>

\* --------------------------------------------------- index: the entry points
MaxText == 2
MaxUuids == 1
DocLens == {chunk_size, chunk_size + 1, 2 * chunk_size}
DocIds == {1}
NoteIds == {1}
DocUsers == {OwnerOf(1)}

\* the profiles saved: bio and skills vary, the other fields are not filled in
ProfileInputs ==
    {[name |-> Null, location |-> Null, bio |-> b, skills |-> s, experience |-> Null,
      interests |-> Null, user_id |-> Null] : b \in 0..MaxText, s \in 0..1}

\* the documents saved: with an id, and one without
DocumentInputs ==
    {[id |-> i, title |-> 1, description |-> d, ver |-> 1, len |-> l] :
        i \in DocIds, d \in 0..1, l \in DocLens \cup {0}}
    \cup {[id |-> Null, title |-> 1, description |-> Null, ver |-> 1, len |-> chunk_size]}

NoteInputs ==
    {<<[id |-> i, content |-> c]>> : i \in NoteIds \cup {Null}, c \in 0..MaxText}

\* a profile is saved: add_profile_to_vector_db(updated_profile, user_id)
AddProfile(profile, user, deleteOk) ==
    /\ collection' = add_profile_to_vector_db(collection, profile, user, deleteOk).coll
    /\ UNCHANGED <<chromaAdd, nextUuid, notes_table, nextNote, tasks>>
    /\ UNCHANGED chatVars
    /\ UNCHANGED <<callVars, procVars, turnVars, visitorVars, profileVars>>

\* the id a document is indexed under: its own, or a fresh uuid4
DocumentId(doc) == IF doc.id # Null THEN doc.id ELSE 100 + nextUuid

\* a document is saved: add_document_to_vector_db(document_data, user_id)
AddDocument(doc, user) ==
    /\ doc.id = Null => nextUuid <= MaxUuids
    /\ collection' = add_document_to_vector_db(collection, doc, DocumentId(doc), user).coll
    /\ nextUuid' = IF doc.id = Null THEN nextUuid + 1 ELSE nextUuid
    /\ UNCHANGED <<chromaAdd, notes_table, nextNote, tasks>>
    /\ UNCHANGED chatVars
    /\ UNCHANGED <<callVars, procVars, turnVars, visitorVars, profileVars>>

\* a note is saved: the background task embed_and_store_notes(user_id, [note])
EmbedNotes(user, notes) ==
    /\ collection' = embed_and_store_notes(collection, user, notes).coll
    /\ UNCHANGED <<chromaAdd, nextUuid, notes_table, nextNote, tasks>>
    /\ UNCHANGED chatVars
    /\ UNCHANGED <<callVars, procVars, turnVars, visitorVars, profileVars>>

NextIndex ==
    \/ \E profile \in ProfileInputs, u \in IndexUsers, d \in BOOLEAN : AddProfile(profile, u, d)
    \/ \E doc \in DocumentInputs, u \in DocUsers : AddDocument(doc, u)
    \/ \E notes \in NoteInputs, u \in DocUsers : EmbedNotes(u, notes)

SpecIndex == InitIndex /\ [][NextIndex]_vars

\* ------------------------------------------------------ the content chunker
MaxLen == 8
MaxSize == 4

RECURSIVE SplitFromGap(_, _, _, _)
RECURSIVE SplitFrom(_, _, _, _)
\* a variant whose windows leave a gap of one character
SplitFromGap(text, i, size, ov) ==
    IF i >= Len(text) THEN <<>>
    ELSE <<SubSeq(text, i + 1, Min(i + size, Len(text)))>>
         \o SplitFromGap(text, i + size + 1, size, ov)

\* for i in range(i, len(text), size - ov): chunks.append(text[i:i + size])
SplitFrom(text, i, size, ov) ==
    IF i >= Len(text) THEN <<>>
    ELSE <<SubSeq(text, i + 1, Min(i + size, Len(text)))>>
         \o SplitFrom(text, i + (size - ov), size, ov)

\* the content chunks of add_document_to_vector_db, with chunk_size and
\* overlap as parameters: a text longer than size is split, any other is one
\* chunk
content_chunks(text, size, ov) ==
    IF Len(text) > size THEN SplitFrom(text, 0, size, ov) ELSE <<text>>

\* a text is known by its characters' positions
TextOf(n) == [i \in 1..n |-> i]

ChunkerInputs ==
    {[fn |-> "chunk", text |-> TextOf(n), size |-> size, overlap |-> ov] :
        n \in 0..MaxLen, size \in 1..MaxSize, ov \in 0..(MaxSize - 1)}

InitChunker ==
    /\ turn = NoTurn
    /\ Running
    /\ supabase = "client"
    /\ fkEnforced = FALSE
    /\ chromaAdd = "ignore"
    /\ Empty
    /\ call \in {c \in ChunkerInputs : c.overlap < c.size}
    /\ result = NoResult

\* the text is chunked
RunChunker ==
    /\ call.fn = "chunk" /\ ~result.done
    /\ result' = [done |-> TRUE,
                  chunks |-> content_chunks(call.text, call.size, call.overlap)]
    /\ UNCHANGED call
    /\ UNCHANGED procVars
    /\ UNCHANGED turnVars
    /\ UNCHANGED <<visitorVars, profileVars>>
    /\ UNCHANGED chatVars
    /\ UNCHANGED indexVars

SpecChunker == InitChunker /\ [][RunChunker]_vars

\* ------------------------------------------------------ retrieval: rank
\* n_results of the category queries
document_n == 5
note_n == 5
profile_n == 3
conversation_n == 3

MaxDistance == 4
MaxBudget == 2

\* a chunk of the index as a query sees it: its id, the metadata the filters
\* read, and its distance to the query text
Entry(id, category, user, visitor, distance) ==
    [id |-> id, category |-> category, user_id |-> user, visitor_id |-> visitor,
     distance |-> distance]

Nearer(a, b) == a.distance < b.distance \/ (a.distance = b.distance /\ a.id < b.id)

\* the entries of a set, nearest first
RECURSIVE SortSet(_)
SortSet(S) ==
    IF S = {} THEN <<>>
    ELSE LET m == CHOOSE x \in S : \A y \in S \ {x} : Nearer(x, y)
         IN <<m>> \o SortSet(S \ {m})

\* collection.query(query_texts=[query], n_results=k, where=...): the k nearest
\* entries of the category that pass the user and visitor filters
Query(index, category, user, visitor, k) ==
    Take(SortSet({e \in index : /\ e.category = category
                                /\ (user # Null => e.user_id = user)
                                /\ (visitor # Null => e.visitor_id = visitor)}), k)

\* for i, id in enumerate(results): if id not in ids: append
AppendNew(list, more) ==
    list \o SelectSeq(more, LAMBDA e : \A i \in 1..Len(list) : list[i].id # e.id)

\* a variant that leaves the merged results in the order the queries gave
sorted_as_merged(list, d) == IF d > MaxDistance THEN <<>> ELSE list

\* sorted(range(len(distances)), key=lambda k: distances[k]): a stable sort,
\* taken from distance d upwards
RECURSIVE sorted_by_distance(_, _)
sorted_by_distance(list, d) ==
    IF d > MaxDistance THEN <<>>
    ELSE SelectSeq(list, LAMBDA e : e.distance = d) \o sorted_by_distance(list, d + 1)

\* a variant that returns everything the category queries found
limit_none(list, n_results) == list

\* sorted_indices[:n_results]
limit_to_n_results(list, n_results) == Take(list, n_results)

\* the category queries of query_vector_db, each in its own try, merged
Merged(c) ==
    LET ok(cat) == cat \notin c.failing
        doc == IF c.user_id # Null /\ ok("document")
               THEN Query(c.index, "document", c.user_id, Null, document_n) ELSE <<>>
        note == IF c.user_id # Null /\ ok("note")
                THEN Query(c.index, "note", c.user_id, Null, note_n) ELSE <<>>
        profile == IF c.user_id # Null /\ ok("profile")
                   THEN Query(c.index, "profile", c.user_id, Null, profile_n) ELSE <<>>
        conv == IF c.include_conversation /\ c.visitor_id # Null /\ ok("conversation")
                THEN Query(c.index, "conversation", c.user_id, c.visitor_id, conversation_n)
                ELSE <<>>
    IN AppendNew(AppendNew(AppendNew(doc, note), profile), conv)

\* a variant in which a failing category query aborts the whole call
query_vector_db_abort(c) ==
    IF c.unreachable \/ c.index = {} \/ c.failing # {}
    THEN [done |-> TRUE, raised |-> c.failing # {}, results |-> <<>>]
    ELSE [done |-> TRUE, raised |-> FALSE,
          results |-> limit_to_n_results(sorted_by_distance(Merged(c), 0), c.n_results)]

\* query_vector_db(query, n_results, user_id, visitor_id, include_conversation)
query_vector_db(c) ==
    IF c.unreachable \/ c.index = {}
    THEN [done |-> TRUE, raised |-> FALSE, results |-> <<>>]
    ELSE [done |-> TRUE, raised |-> FALSE,
          results |-> limit_to_n_results(sorted_by_distance(Merged(c), 0), c.n_results)]

Tenant == OwnerOf(1)
OtherTenant == OwnerOf(2)
Visitor == VisitorUUID(1)
OtherVisitor == VisitorUUID(2)

\* the chunks an index is made of: of the tenant and of another, of the
\* visitor and of another, and a conversation chunk stored without user_id
EntryPool ==
    {Entry(1, "document", Tenant, Null, 1), Entry(3, "document", OtherTenant, Null, 0),
     Entry(2, "project", Tenant, Null, 0),
     Entry(4, "note", Tenant, Null, 2),
     Entry(6, "conversation", Tenant, Visitor, 1),
     Entry(7, "conversation", OtherTenant, Visitor, 0),
     Entry(8, "conversation", Tenant, OtherVisitor, 0),
     Entry(9, "conversation", Null, Visitor, 2)}

ProfileEntries(n) == {Entry(9 + k, "profile", Tenant, Null, k) : k \in 1..n}

Categories == {"document", "note", "profile", "conversation"}

RankInputs ==
    {[fn |-> "rank", index |-> i \cup ProfileEntries(pn), n_results |-> n,
      user_id |-> u, visitor_id |-> v, include_conversation |-> ic,
      failing |-> f, unreachable |-> un] :
        i \in SUBSET EntryPool, pn \in {0, 1, MaxDistance},
        n \in {0, MaxBudget, document_n + note_n + profile_n + conversation_n},
        u \in {Null, Tenant}, v \in {Null, Visitor}, ic \in BOOLEAN,
        f \in {{}, Categories} \cup {{cat} : cat \in Categories}, un \in BOOLEAN}

InitRank ==
    /\ turn = NoTurn
    /\ Running
    /\ supabase = "client"
    /\ fkEnforced = FALSE
    /\ chromaAdd = "ignore"
    /\ Empty
    /\ call \in {c \in RankInputs : c.unreachable => c.failing = Categories}
    /\ result = NoResult

\* the index is queried
RunRank ==
    /\ call.fn = "rank" /\ ~result.done
    /\ result' = query_vector_db(call)
    /\ UNCHANGED call
    /\ UNCHANGED procVars
    /\ UNCHANGED turnVars
    /\ UNCHANGED <<visitorVars, profileVars>>
    /\ UNCHANGED chatVars
    /\ UNCHANGED indexVars

SpecRank == InitRank /\ [][RunRank]_vars

\* ------------------------------------------- start-up and response generator
MaxDetail == 3
ProfileNames == {1, 2}
ModelReplies == {1, 2}

\* what openai.chat.completions.create does: it returns, or raises one of
\* the exceptions of the client library, or something else fails
Outcomes ==
    {"ok", "RateLimitError", "APIConnectionError", "AuthenticationError",
     "InternalServerError", "TypeError", "prompt_error"}

\* the base class of each exception class of the client library
Base(cls) ==
    CASE cls = "RateLimitError" -> "APIStatusError"
      [] cls = "AuthenticationError" -> "APIStatusError"
      [] cls = "InternalServerError" -> "APIStatusError"
      [] cls = "APIStatusError" -> "APIError"
      [] cls = "APIConnectionError" -> "APIError"
      [] cls = "APIError" -> "Exception"
      [] OTHER -> "Exception"

\* isinstance(e, cls) for an exception e of class c
RECURSIVE IsInstance(_, _)
IsInstance(c, cls) ==
    \/ c = cls
    \/ (c # "Exception" /\ IsInstance(Base(c), cls))

Reply(kind, text, detail, name) ==
    [kind |-> kind, text |-> text, detail |-> detail, name |-> name]

\* generate_ai_response: one call of the model; the except clauses are tried
\* in the order they are written
generate_ai_response(c) ==
    IF c.outcome = "prompt_error"
    THEN [done |-> TRUE, raised |-> FALSE, attempts |-> 0,
          reply |-> Reply("internal", Null, Null, Null)]
    ELSE IF c.outcome = "ok"
    THEN [done |-> TRUE, raised |-> FALSE, attempts |-> 1,
          reply |-> Reply("model", c.text, Null, Null)]
    ELSE IF IsInstance(c.outcome, "APIError")
    THEN [done |-> TRUE, raised |-> FALSE, attempts |-> 1,
          reply |-> Reply("provider_error", Null, c.detail, Null)]
    ELSE IF IsInstance(c.outcome, "APIConnectionError")
    THEN [done |-> TRUE, raised |-> FALSE, attempts |-> 1,
          reply |-> Reply("connection_failed", Null, c.detail, Null)]
    ELSE IF IsInstance(c.outcome, "RateLimitError")
    THEN [done |-> TRUE, raised |-> FALSE, attempts |-> 1,
          reply |-> Reply("rate_limited", Null, c.detail, Null)]
    ELSE [done |-> TRUE, raised |-> FALSE, attempts |-> 1,
          reply |-> Reply("trouble", Null, Null, c.name)]

GenerateInputs ==
    {[fn |-> "generate", outcome |-> o, detail |-> d, text |-> t, name |-> n] :
        o \in Outcomes, d \in 1..MaxDetail, t \in ModelReplies, n \in ProfileNames}

InitGen ==
    /\ turn = NoTurn
    /\ supabase = "client"
    /\ fkEnforced = FALSE
    /\ chromaAdd = "ignore"
    /\ Empty
    /\ call = NoCall
    /\ result = NoResult
    /\ api_key \in {"set", "missing"}
    /\ server = "off"

\* start.py: check_environment warns when the key is missing and goes on
check_environment ==
    /\ server = "off"
    /\ server' = "checked"
    /\ UNCHANGED <<api_key, call, result>>
    /\ UNCHANGED turnVars
    /\ UNCHANGED <<visitorVars, profileVars>>
    /\ UNCHANGED chatVars
    /\ UNCHANGED indexVars

\* uvicorn imports app.main, which imports app.embeddings: both raise
\* ValueError when the key is missing, and the process ends
ImportApp ==
    /\ server = "checked"
    /\ server' = IF api_key = "missing" THEN "exited" ELSE "serving"
    /\ UNCHANGED <<api_key, call, result>>
    /\ UNCHANGED turnVars
    /\ UNCHANGED <<visitorVars, profileVars>>
    /\ UNCHANGED chatVars
    /\ UNCHANGED indexVars

\* a route awaits generate_ai_response
StartGenerate(c) ==
    /\ server = "serving"
    /\ call.fn = "none" \/ result.done
    /\ call' = c
    /\ result' = NoResult
    /\ UNCHANGED procVars
    /\ UNCHANGED turnVars
    /\ UNCHANGED <<visitorVars, profileVars>>
    /\ UNCHANGED chatVars
    /\ UNCHANGED indexVars

\* the call of the model returns or raises, and the generator returns
ProviderAnswers ==
    /\ server = "serving"
    /\ call.fn = "generate" /\ ~result.done
    /\ result' = generate_ai_response(call)
    /\ UNCHANGED call
    /\ UNCHANGED procVars
    /\ UNCHANGED turnVars
    /\ UNCHANGED <<visitorVars, profileVars>>
    /\ UNCHANGED chatVars
    /\ UNCHANGED indexVars

NextGen ==
    \/ check_environment
    \/ ImportApp
    \/ \E c \in GenerateInputs : StartGenerate(c)
    \/ ProviderAnswers

SpecGen == InitGen /\ [][NextGen]_vars

\* ------------------------------------------------ one turn through a handler
\* the handlers of routes/chatbot.py that POST /chat and
\* POST /chat/{user_id}/public reach
Entries == {"chat", "public"}

\* what log_chat_message hands back once the row is in the table: a bool, or
\* the rows of the insert that chat_with_public_chatbot looks for
LogReturns == {"bool", "rows"}

Happened(t, e) == [t EXCEPT !.events = Append(@, e)]

\* an exception raised inside the handler's try: chat's except Exception
\* goes on to its fallback, chat_with_public_chatbot's answers 500
Raised(t, failure) ==
    IF t.entry = "chat"
    THEN [t EXCEPT !.pc = "fallback", !.failure = failure]
    ELSE Happened([t EXCEPT !.pc = "done", !.failure = failure, !.status = 500], "respond")

\* a variant that takes the owner the caller names, when it names one
owner_from_request(chatbot, target_user_id) ==
    IF target_user_id # Null THEN target_user_id ELSE chatbot.user_id

\* owner_user_id = chatbot.get("user_id"); chat_with_public_chatbot takes the
\* user id of the path, which is the one the chatbot was looked up by
owner_user_id(chatbot, target_user_id) == chatbot.user_id

\* the request arrives: input validation and the chatbot lookup
TurnArrives(e, b, u, empty, lr) ==
    /\ turn.pc = "idle"
    /\ LET t == Happened([turn EXCEPT !.entry = e, !.chatbot_id = b, !.target_user_id = u,
                                      !.log_returns = lr], "request")
       IN turn' = IF empty
                  THEN Happened([t EXCEPT !.pc = "done", !.reply = "empty_notice",
                                          !.status = 200], "respond")
                  ELSE IF get_or_create_chatbot(b) = {}
                  THEN Raised(t, "not_found")
                  ELSE [t EXCEPT !.pc = "visitor",
                                 !.owner = owner_user_id(
                                     CHOOSE c \in get_or_create_chatbot(b) : TRUE, u)]
    /\ UNCHANGED chatVars
    /\ UNCHANGED indexVars
    /\ UNCHANGED <<callVars, procVars, visitorVars, profileVars>>

\* GET /chat/{user_id}/public (get_public_chatbot_by_user_id): the 404 is
\* raised inside the try and the except Exception answers 500
TurnLookup(b) ==
    /\ turn.pc = "idle"
    /\ LET t == Happened([turn EXCEPT !.entry = "lookup", !.chatbot_id = b], "request")
       IN turn' = IF get_or_create_chatbot(b) = {}
                  THEN Happened([t EXCEPT !.pc = "done", !.failure = "not_found",
                                          !.status = 500], "respond")
                  ELSE Happened([t EXCEPT !.pc = "done", !.status = 200], "respond")
    /\ UNCHANGED chatVars
    /\ UNCHANGED indexVars
    /\ UNCHANGED <<callVars, procVars, visitorVars, profileVars>>

\* get_or_create_visitor returns the row, or fails
TurnVisitor(fails) ==
    /\ turn.pc = "visitor"
    /\ turn' = IF fails THEN Raised(turn, "visitor") ELSE [turn EXCEPT !.pc = "conversation"]
    /\ UNCHANGED chatVars
    /\ UNCHANGED indexVars
    /\ UNCHANGED <<callVars, procVars, visitorVars, profileVars>>

\* get_or_create_conversation returns the id, or raises
TurnConversation(fails) ==
    /\ turn.pc = "conversation"
    /\ turn' = IF fails THEN Raised(turn, "conversation")
               ELSE [turn EXCEPT !.pc = "retrieve", !.conversation_id = 1]
    /\ UNCHANGED chatVars
    /\ UNCHANGED indexVars
    /\ UNCHANGED <<callVars, procVars, visitorVars, profileVars>>

\* query_vector_db: the results, or the empty result when the index fails
TurnRetrieve(fails) ==
    /\ turn.pc = "retrieve"
    /\ turn' = [turn EXCEPT !.pc = "generate",
                            !.search = IF fails THEN "failed" ELSE "found"]
    /\ UNCHANGED chatVars
    /\ UNCHANGED indexVars
    /\ UNCHANGED <<callVars, procVars, visitorVars, profileVars>>

\* generate_ai_response: the model's reply, or one of its fallback strings
Generated(ok) == IF ok THEN "generated" ELSE "provider_fallback"

TurnGenerate(ok) ==
    /\ turn.pc = "generate"
    /\ turn' = [turn EXCEPT !.pc = "persist", !.reply = Generated(ok)]
    /\ UNCHANGED chatVars
    /\ UNCHANGED indexVars
    /\ UNCHANGED <<callVars, procVars, visitorVars, profileVars>>

\* a variant of log_chat_message that raises when the insert fails
log_chat_message_raises(t, insertFails) ==
    IF supabase = "none" \/ insertFails
    THEN Raised(t, "persist")
    ELSE Happened([t EXCEPT !.persisted = "table",
                            !.log_result = IF t.log_returns = "rows" THEN "rows" ELSE "True"],
                  "persist")

\* log_chat_message: the row goes to the table, and to the in-memory list
\* when there is no client or the insert fails; it does not raise
log_chat_message(t, insertFails) ==
    IF supabase = "none" \/ insertFails
    THEN Happened([t EXCEPT !.persisted = "memory", !.log_result = "True"], "persist")
    ELSE Happened([t EXCEPT !.persisted = "table",
                            !.log_result = IF t.log_returns = "rows" THEN "rows" ELSE "True"],
                  "persist")

\* the turn is logged; chat answers next, chat_with_public_chatbot indexes
TurnPersist(insertFails) ==
    /\ turn.pc = "persist"
    /\ LET t == log_chat_message(turn, insertFails)
       IN turn' = IF t.pc = "persist"
                  THEN [t EXCEPT !.pc = IF t.entry = "chat" THEN "respond" ELSE "index"]
                  ELSE t
    /\ UNCHANGED chatVars
    /\ UNCHANGED indexVars
    /\ UNCHANGED <<callVars, procVars, visitorVars, profileVars>>

\* a variant in which a failing index write raises
index_turn_raises(t, fails) ==
    IF t.log_result # "rows" THEN [t EXCEPT !.pc = "respond"]
    ELSE IF fails THEN Raised(Happened([t EXCEPT !.index = "failed"], "index"), "index")
    ELSE Happened([t EXCEPT !.pc = "respond", !.index = "written"], "index")

\* chat_with_public_chatbot: add_conversation_to_vector_db is called, before
\* the response is built, when the log result is a list of rows with an id;
\* it returns False when the write fails
index_turn(t, fails) ==
    IF t.log_result # "rows" THEN [t EXCEPT !.pc = "respond"]
    ELSE Happened([t EXCEPT !.pc = "respond",
                            !.index = IF fails THEN "failed" ELSE "written"], "index")

TurnIndex(fails) ==
    /\ turn.pc = "index"
    /\ turn' = index_turn(turn, fails)
    /\ UNCHANGED chatVars
    /\ UNCHANGED indexVars
    /\ UNCHANGED <<callVars, procVars, visitorVars, profileVars>>

\* return models.ChatResponse(response=ai_response, ...)
TurnRespond ==
    /\ turn.pc = "respond"
    /\ turn' = Happened([turn EXCEPT !.pc = "done", !.status = 200], "respond")
    /\ UNCHANGED chatVars
    /\ UNCHANGED indexVars
    /\ UNCHANGED <<callVars, procVars, visitorVars, profileVars>>

\* chat's except Exception: a reply is generated when the owner is known (the
\* profile read always returns a profile), the fixed reply is used otherwise;
\* the turn is logged when the conversation is known; the reply is returned
TurnFallback(ok, insertFails) ==
    /\ turn.pc = "fallback"
    /\ LET replied == [turn EXCEPT !.reply = IF turn.owner # Null THEN Generated(ok)
                                             ELSE "fixed_fallback"]
           logged == IF turn.conversation_id # Null
                     THEN log_chat_message(replied, insertFails) ELSE replied
       IN turn' = Happened([logged EXCEPT !.pc = "done", !.status = 200], "respond")
    /\ UNCHANGED chatVars
    /\ UNCHANGED indexVars
    /\ UNCHANGED <<callVars, procVars, visitorVars, profileVars>>

InitTurn ==
    /\ Running
    /\ turn = NoTurn
    /\ call = NoCall
    /\ result = NoResult
    /\ supabase \in {"client", "none"}
    /\ fkEnforced = FALSE
    /\ chromaAdd = "ignore"
    /\ Empty

NextTurn ==
    \/ \E e \in Entries, b \in RequestedChatbots, u \in Owners \cup {Null},
          empty \in BOOLEAN, lr \in LogReturns : TurnArrives(e, b, u, empty, lr)
    \/ \E b \in RequestedChatbots : TurnLookup(b)
    \/ \E fails \in BOOLEAN : TurnVisitor(fails)
    \/ \E fails \in BOOLEAN : TurnConversation(fails)
    \/ \E fails \in BOOLEAN : TurnRetrieve(fails)
    \/ \E ok \in BOOLEAN : TurnGenerate(ok)
    \/ \E insertFails \in BOOLEAN : TurnPersist(insertFails)
    \/ \E fails \in BOOLEAN : TurnIndex(fails)
    \/ TurnRespond
    \/ \E ok \in BOOLEAN, insertFails \in BOOLEAN : TurnFallback(ok, insertFails)

SpecTurn == InitTurn /\ [][NextTurn]_vars

\* ------------------------------------------------------- profile update
MaxValue == 2
UpdateFields == {"bio", "skills"}

\* a string is a sequence of characters: a blank or a letter
Blank == 0
Letter == 1
Strings == UNION {[1..n -> {Blank, Letter}] : n \in 0..MaxValue}

\* the field is not in the request
Unset == <<Blank - 1>>
\* NULL in the table, None in Python
None == <<Blank - 2>>
\* the value a stored profile has before the update
OldValue == <<Letter, Letter, Letter>>

\* value.strip() == ''
IsEmptyString(v) == \A i \in 1..Len(v) : v[i] = Blank

\* if isinstance(value, str) and value.strip() == '': profile_data[key] = None
nullify(v) == IF IsEmptyString(v) THEN None ELSE v

Submitted(data) == {f \in UpdateFields : data[f] # Unset}

\* update_profile_data(data, user_id): the profile that is stored and the one
\* that is returned. Without a client the values go to in_memory_profile as
\* they are; with one, empty strings become None before the row is written,
\* and the row is read back
update_profile_data(c) ==
    IF c.supabase = "none"
    THEN LET stored == [f \in UpdateFields |->
                           IF f \in Submitted(c.data) THEN c.data[f] ELSE c.existing[f]]
         IN [done |-> TRUE, success |-> TRUE, stored |-> stored, profile |-> stored]
    ELSE IF c.update_fails
    THEN [done |-> TRUE, success |-> FALSE, stored |-> c.existing, profile |-> c.existing]
    ELSE LET stored == [f \in UpdateFields |->
                           IF f \in Submitted(c.data) THEN nullify(c.data[f])
                           ELSE c.existing[f]]
         IN [done |-> TRUE, success |-> TRUE, stored |-> stored, profile |-> stored]

ProfileUpdateInputs ==
    {[fn |-> "update_profile", supabase |-> sb, update_fails |-> uf, data |-> d,
      existing |-> [f \in UpdateFields |-> OldValue]] :
        sb \in {"client", "none"}, uf \in BOOLEAN,
        d \in [UpdateFields -> Strings \cup {Unset}]}

InitProfile ==
    /\ Running
    /\ turn = NoTurn
    /\ fkEnforced = FALSE
    /\ chromaAdd = "ignore"
    /\ Empty
    /\ call \in {c \in ProfileUpdateInputs : c.update_fails => c.supabase = "client"}
    /\ supabase = call.supabase
    /\ result = NoResult

\* POST /profile: the profile is updated
RunProfileUpdate ==
    /\ call.fn = "update_profile" /\ ~result.done
    /\ result' = update_profile_data(call)
    /\ UNCHANGED call
    /\ UNCHANGED procVars
    /\ UNCHANGED turnVars
    /\ UNCHANGED <<visitorVars, profileVars>>
    /\ UNCHANGED chatVars
    /\ UNCHANGED indexVars

SpecProfile == InitProfile /\ [][RunProfileUpdate]_vars

\* ------------------------------------------------ grounding prompt: context
MaxResults == 6

\* the keys of context_sections
Sections == {"profile", "project", "document", "conversation", "note"}

\* the category a search result's metadata can carry
ResultCategories == Sections \cup {"unknown"}

\* max_entries
max_entries(section) ==
    CASE section = "document" -> 5
      [] section = "project" -> 3
      [] section = "profile" -> 3
      [] section = "conversation" -> 2
      [] section = "note" -> 5

\* a result of an unknown category is added to the profile section
SectionOf(category) == IF category \in Sections THEN category ELSE "profile"

\* the entries of the search results, in their order
ContextEntries(results) ==
    [i \in 1..Len(results) |-> [position |-> i, category |-> results[i]]]

\* a variant that keeps every entry
keep_all(entries, limit) == entries

\* context_sections[section] = entries[:limit]
limit_entries(entries, limit) == Take(entries, limit)

\* generate_ai_response: the search results are collected by section and
\* each section is cut to its limit before the context text is built
context_sections(results) ==
    [section \in Sections |->
        limit_entries(SelectSeq(ContextEntries(results),
                                LAMBDA e : SectionOf(e.category) = section),
                      max_entries(section))]

PromptInputs ==
    {[fn |-> "prompt", results |-> r] :
        r \in UNION {[1..n -> ResultCategories] : n \in 0..MaxResults}}

InitPrompt ==
    /\ Running
    /\ turn = NoTurn
    /\ supabase = "client"
    /\ fkEnforced = FALSE
    /\ chromaAdd = "ignore"
    /\ Empty
    /\ call \in PromptInputs
    /\ result = NoResult

\* the context of the prompt is assembled
RunPrompt ==
    /\ call.fn = "prompt" /\ ~result.done
    /\ result' = [done |-> TRUE, sections |-> context_sections(call.results)]
    /\ UNCHANGED call
    /\ UNCHANGED procVars
    /\ UNCHANGED turnVars
    /\ UNCHANGED <<visitorVars, profileVars>>
    /\ UNCHANGED chatVars
    /\ UNCHANGED indexVars

SpecPrompt == InitPrompt /\ [][RunPrompt]_vars

\* ------------------------------------------------------ visitor resolver
MaxExternal == 2
ExternalIds == 1..MaxExternal

RowsOfExternal(ext) == {r \in visitor_rows : r.external_id = ext}

\* the handler goes on with the id of the row (visitor_record.get('id'))
VisitorResolved(p, row) ==
    /\ req' = [req EXCEPT ![p].visitor_id = row.id]
    /\ pc' = [pc EXCEPT ![p] = "v_done"]

\* get_or_create_visitor, step 1: query the row of the external id
VisitorQuery(p, ext) ==
    /\ Arrives(p)
    /\ LET found == RowsOfExternal(ext)
           started == [req EXCEPT ![p] = [NoReq EXCEPT !.kind = "visitor",
                                                       !.visitor_ext = ext]]
       IN IF found # {}
          THEN \E row \in found :
                  /\ req' = [started EXCEPT ![p].visitor_id = row.id]
                  /\ pc' = [pc EXCEPT ![p] = "v_done"]
          ELSE /\ req' = started
               /\ pc' = [pc EXCEPT ![p] = "v_insert"]
    /\ UNCHANGED <<storeVars, ret, deletedConvs, visitor_rows>>
    /\ UNCHANGED indexVars
    /\ UNCHANGED <<callVars, procVars, turnVars, profileVars>>

\* a variant without the unique constraint on the external id
VisitorConflictsNever(ext) == FALSE

\* the unique constraint on the external id rejects the insert
VisitorConflicts(ext) == RowsOfExternal(ext) # {}

\* step 2: insert the row; a conflict leads to the refetch
VisitorInsert(p) ==
    /\ pc[p] = "v_insert"
    /\ IF VisitorConflicts(req[p].visitor_ext)
       THEN /\ pc' = [pc EXCEPT ![p] = "v_refetch"]
            /\ req' = [req EXCEPT ![p].conflict = TRUE]
            /\ UNCHANGED visitor_rows
       ELSE LET row == [id |-> 100 + Cardinality(visitor_rows) + 1,
                        external_id |-> req[p].visitor_ext]
            IN /\ visitor_rows' = visitor_rows \cup {row}
               /\ VisitorResolved(p, row)
    /\ UNCHANGED <<storeVars, ret, deletedConvs>>
    /\ UNCHANGED indexVars
    /\ UNCHANGED <<callVars, procVars, turnVars, profileVars>>

\* step 3: refetch after the conflict
VisitorRefetch(p) ==
    /\ pc[p] = "v_refetch"
    /\ \E row \in RowsOfExternal(req[p].visitor_ext) : VisitorResolved(p, row)
    /\ UNCHANGED <<storeVars, ret, deletedConvs, visitor_rows>>
    /\ UNCHANGED indexVars
    /\ UNCHANGED <<callVars, procVars, turnVars, profileVars>>

InitVisitor ==
    /\ Running
    /\ turn = NoTurn
    /\ call = NoCall
    /\ result = NoResult
    /\ supabase = "client"
    /\ fkEnforced = FALSE
    /\ chromaAdd = "ignore"
    /\ Empty

NextVisitor ==
    \/ \E p \in Procs, ext \in ExternalIds : VisitorQuery(p, ext)
    \/ \E p \in Procs : VisitorInsert(p)
    \/ \E p \in Procs : VisitorRefetch(p)

SpecVisitor == InitVisitor /\ [][NextVisitor]_vars

\* ------------------------------------------------- embedding function
\* OpenAIEmbeddingFunction.__call__ and the ingestion that relies on it.  A
\* vector is kept as its dimension and whether every component is 0.0.
embedding_dim == 1536
MaxInputs == 3
EmbedTexts == 1..2
EmbedOutcomes == {"ok", "APIError", "APIConnectionError", "RateLimitError", "Timeout"}

ZeroVector == [dim |-> embedding_dim, zero |-> TRUE]
ModelVector == [dim |-> embedding_dim, zero |-> FALSE]

\* the except branch re-raising instead of returning the placeholder
embedding_function_raises(input, outcome) ==
    LET list == IF input.kind = "str" THEN <<input.value>> ELSE input.value
    IN IF outcome = "ok"
       THEN [raised |-> FALSE, embeddings |-> [i \in 1..Len(list) |-> ModelVector]]
       ELSE [raised |-> TRUE, embeddings |-> <<>>]

OpenAIEmbeddingFunction(input, outcome) ==
    LET list == IF input.kind = "str" THEN <<input.value>> ELSE input.value
    IN IF outcome = "ok"
       THEN [raised |-> FALSE, embeddings |-> [i \in 1..Len(list) |-> ModelVector]]
       ELSE [raised |-> FALSE, embeddings |-> [i \in 1..Len(list) |-> ZeroVector]]

RECURSIVE ChunkList(_)
ChunkList(chunks) ==
    IF chunks = {} THEN <<>>
    ELSE LET c == CHOOSE x \in chunks : TRUE
         IN <<c>> \o ChunkList(chunks \ {c})

\* collection.add(documents, metadatas, ids) of add_document_to_vector_db: the
\* collection embeds the documents with openai_ef and stores one vector per
\* chunk; a raising embedding function makes add raise, which the function's
\* own try/except turns into False with nothing stored.
ingest_document(doc, user, outcome) ==
    LET chunks == IF doc.len = 0 THEN {} ELSE DocumentChunks(doc, doc.id, user)
        list == ChunkList(chunks)
        documents == [i \in 1..Len(list) |-> list[i].document]
        e == OpenAIEmbeddingFunction([kind |-> "list", value |-> documents], outcome)
    IN IF chunks = {} THEN [ok |-> FALSE, stored |-> {}]
       ELSE IF e.raised \/ Len(e.embeddings) # Len(documents)
       THEN [ok |-> FALSE, stored |-> {}]
       ELSE [ok |-> TRUE,
             stored |-> {[id |-> list[i].id, embedding |-> e.embeddings[i]] :
                            i \in 1..Len(list)}]

EmbedInputs ==
    {[kind |-> "str", value |-> t] : t \in EmbedTexts}
    \cup {[kind |-> "list", value |-> l] :
             l \in UNION {[1..n -> EmbedTexts] : n \in 0..MaxInputs}}

EmbedCalls ==
    {[fn |-> "embed", input |-> i, outcome |-> o, doc |-> d, user_id |-> u] :
        i \in EmbedInputs, o \in EmbedOutcomes,
        d \in {doc \in DocumentInputs : doc.id # Null}, u \in DocUsers}

InitEmbed ==
    /\ turn = NoTurn
    /\ Running
    /\ call \in EmbedCalls
    /\ result = NoResult
    /\ supabase = "client"
    /\ fkEnforced = FALSE
    /\ chromaAdd = "ignore"
    /\ Empty

RunIngest ==
    /\ call.fn = "embed"
    /\ ~result.done
    /\ result' = [done |-> TRUE,
                  embed |-> OpenAIEmbeddingFunction(call.input, call.outcome),
                  ingest |-> ingest_document(call.doc, call.user_id, call.outcome)]
    /\ UNCHANGED <<call, chatVars, indexVars, procVars, turnVars, visitorVars, profileVars>>

SpecEmbed == InitEmbed /\ [][RunIngest]_vars

\* ------------------------------------------------- profiles and projects
\* The profile and project functions of database.py for two tenants.  A
\* profile is its bio; a project is its id and the tenant it was added for.
MaxBio == 2
MaxProjects == 2
DefaultBio == 0
Bios == 1..MaxBio
ProjectIds == 1..MaxProjects

ProfileRowsOf(u) == {r \in profiles : r.user_id = u}

\* what get_profile_data(user_id) returns: the in-memory profile without a
\* client; the tenant's row and its projects with one; for a tenant without a
\* row, a new profile that takes its bio from in_memory_profile
get_profile_data(u) ==
    IF supabase = "none"
    THEN [bio |-> in_memory_profile.bio, project_list |-> in_memory_profile.project_list]
    ELSE IF ProfileRowsOf(u) # {}
    THEN [bio |-> (CHOOSE r \in ProfileRowsOf(u) : TRUE).bio,
          project_list |-> {q \in projects : q.user_id = u}]
    ELSE [bio |-> in_memory_profile.bio, project_list |-> {}]

TenantOp(op, u) == [fn |-> "tenant_op", op |-> op, user_id |-> u]

\* GET /profile: with a client and no row, the new profile is inserted
GetProfile(u, createFails) ==
    /\ call.fn = "tenant_op"
    /\ call' = TenantOp("get_profile_data", u)
    /\ result' = [done |-> TRUE, profile |-> get_profile_data(u)]
    /\ IF supabase = "client" /\ ProfileRowsOf(u) = {} /\ ~createFails
       THEN profiles' = profiles \cup {[user_id |-> u, bio |-> in_memory_profile.bio]}
       ELSE UNCHANGED profiles
    /\ UNCHANGED <<in_memory_profile, projects>>
    /\ UNCHANGED <<chatVars, indexVars, procVars, turnVars, visitorVars>>

\* update_profile_data(data, user_id) with a bio in the data
UpdateProfile(u, bio, fails) ==
    /\ call.fn = "tenant_op"
    /\ call' = TenantOp("update_profile_data", u)
    /\ result' = NoResult
    /\ IF supabase = "none"
       THEN /\ in_memory_profile' = [in_memory_profile EXCEPT !.bio = bio]
            /\ UNCHANGED profiles
       ELSE /\ UNCHANGED in_memory_profile
            /\ IF fails THEN UNCHANGED profiles
               ELSE profiles' = (profiles \ ProfileRowsOf(u))
                                   \cup {[user_id |-> u, bio |-> bio]}
    /\ UNCHANGED projects
    /\ UNCHANGED <<chatVars, indexVars, procVars, turnVars, visitorVars>>

\* add_project_in_memory: replaces the project with that id or appends
add_project_in_memory(id, u) ==
    [in_memory_profile EXCEPT
        !.project_list = {q \in @ : q.id # id} \cup {[id |-> id, user_id |-> u]}]

\* add_project(project_data, user_id): a failed insert falls back to memory
AddProject(u, id, insertFails) ==
    /\ call.fn = "tenant_op"
    /\ call' = TenantOp("add_project", u)
    /\ result' = NoResult
    /\ IF supabase = "client" /\ ~insertFails /\ \A q \in projects : q.id # id
       THEN /\ projects' = projects \cup {[id |-> id, user_id |-> u]}
            /\ UNCHANGED in_memory_profile
       ELSE /\ in_memory_profile' = add_project_in_memory(id, u)
            /\ UNCHANGED projects
    /\ UNCHANGED profiles
    /\ UNCHANGED <<chatVars, indexVars, procVars, turnVars, visitorVars>>

\* delete_project(project_id, user_id)
DeleteProject(u, id) ==
    /\ call.fn = "tenant_op"
    /\ call' = TenantOp("delete_project", u)
    /\ result' = NoResult
    /\ IF supabase = "client"
       THEN /\ IF \E q \in projects : q.id = id /\ q.user_id = u
               THEN projects' = {q \in projects : q.id # id}
               ELSE UNCHANGED projects
            /\ UNCHANGED in_memory_profile
       ELSE /\ in_memory_profile' =
                   [in_memory_profile EXCEPT !.project_list = {q \in @ : q.id # id}]
            /\ UNCHANGED projects
    /\ UNCHANGED profiles
    /\ UNCHANGED <<chatVars, indexVars, procVars, turnVars, visitorVars>>

InitTenants ==
    /\ turn = NoTurn
    /\ Running
    /\ call = TenantOp("none", Null)
    /\ result = NoResult
    /\ supabase \in {"client", "none"}
    /\ fkEnforced = FALSE
    /\ chromaAdd = "ignore"
    /\ Empty

NextTenants ==
    \/ \E u \in Owners, f \in BOOLEAN : GetProfile(u, f)
    \/ \E u \in Owners, b \in Bios, f \in BOOLEAN : UpdateProfile(u, b, f)
    \/ \E u \in Owners, id \in ProjectIds, f \in BOOLEAN : AddProject(u, id, f)
    \/ \E u \in Owners, id \in ProjectIds : DeleteProject(u, id)

SpecTenants == InitTenants /\ [][NextTenants]_vars

\* ------------------------------------------------- history in the prompt
\* One row is logged per turn: it holds the visitor's message and the reply.
MaxHistory == 2
TurnMessages == 1..2
TurnReplies == 11..12
NoSender == "none"

\* message_data of log_chat_message, the row inserted into the table: it has
\* no sender key, so msg.get('sender') is None when the row is read back
message_data(message, response) ==
    [message |-> message, response |-> response, sender |-> NoSender]

\* the entry log_message_in_memory appends
fallback_data(message, response, sender) ==
    [message |-> message, response |-> response, sender |-> sender]

LoggedRows ==
    {message_data(m, r) : m \in TurnMessages, r \in TurnReplies}
    \cup {fallback_data(m, r, "user") : m \in TurnMessages, r \in TurnReplies}

\* format_conversation_history(chat_history): one line per row
format_conversation_history(chat_history) ==
    [i \in 1..Len(chat_history) |->
        IF chat_history[i].sender = "user"
        THEN [role |-> "User", text |-> chat_history[i].message]
        ELSE [role |-> "Assistant", text |-> chat_history[i].response]]

HistoryInputs ==
    {[fn |-> "format_history", chat_history |-> h] :
        h \in UNION {[1..n -> LoggedRows] : n \in 0..MaxHistory}}

InitHistory ==
    /\ turn = NoTurn
    /\ Running
    /\ call \in HistoryInputs
    /\ result = NoResult
    /\ supabase = "client"
    /\ fkEnforced = FALSE
    /\ chromaAdd = "ignore"
    /\ Empty

\* generate_ai_response formats the history it was given for the prompt
RunFormat ==
    /\ call.fn = "format_history"
    /\ ~result.done
    /\ result' = [done |-> TRUE, lines |-> format_conversation_history(call.chat_history)]
    /\ UNCHANGED <<call, chatVars, indexVars, procVars, turnVars, visitorVars, profileVars>>

SpecHistory == InitHistory /\ [][RunFormat]_vars

\* ------------------------------------------------- the chat handler of main.py
\* main.py registers its own POST /chat after the router's route of the same
\* path.  It resolves the visitor and the conversation first and looks at the
\* message afterwards.
MessageKinds == {"empty", "blank", "text"}

\* lines 307-360: an empty message makes line 312 read chat_request.messages,
\* which ChatRequest does not have: the handler's except answers 500
StartMainChat(p, b, v, message) ==
    /\ Arrives(p)
    /\ IF message = "empty"
       THEN /\ Finish(p, "http_error", <<>>)
            /\ UNCHANGED <<req, visitors>>
       ELSE /\ visitors' = visitors \cup {v}
            /\ req' = [req EXCEPT ![p] = [NoReq EXCEPT !.kind = "main_chat",
                                              !.chatbot_id = b, !.visitor_ext = v,
                                              !.visitor_id = VisitorUUID(v),
                                              !.user = OwnerOf(b),
                                              !.blank = (message = "blank")]]
            /\ pc' = [pc EXCEPT ![p] = "conv_query"]
            /\ UNCHANGED ret
    /\ UNCHANGED <<supabase, fkEnforced, conversations, messages, in_memory_messages,
                   nextConv, nextMsg, now, deletedConvs>>
    /\ UNCHANGED indexVars
    /\ UNCHANGED <<callVars, procVars, turnVars, visitorVars, profileVars>>

\* lines 362-391: a meeting request is logged and answered at once; otherwise
\* a message that is only whitespace gets the fixed reply, and any other goes
\* on to the history and the model
MainEmptyCheck(p, meeting) ==
    /\ pc[p] = "empty_check"
    /\ IF req[p].blank
       THEN Finish(p, "fixed_reply", <<>>)
       ELSE /\ pc' = [pc EXCEPT ![p] = IF meeting THEN "log_ts" ELSE "history"]
            /\ UNCHANGED ret
    /\ UNCHANGED <<storeVars, req, deletedConvs>>
    /\ UNCHANGED indexVars
    /\ UNCHANGED <<callVars, procVars, turnVars, visitorVars, profileVars>>

NextMainChat ==
    \/ \E p \in Procs, b \in RequestedChatbots, v \in VisitorExtIds, e \in BOOLEAN :
          StartChat(p, b, v, e)
    \/ \E p \in Procs, b \in RequestedChatbots, v \in VisitorExtIds, m \in MessageKinds :
          StartMainChat(p, b, v, m)
    \/ \E p \in Procs : ConvQuery(p)
    \/ \E p \in Procs : ConvInsert(p)
    \/ \E p \in Procs : ConvRefetch(p)
    \/ \E p \in Procs, m \in BOOLEAN : MainEmptyCheck(p, m)
    \/ \E p \in Procs, o \in ReadOutcomes : ReadHistory(p, o)
    \/ \E p \in Procs : LogTimestamp(p)
    \/ \E p \in Procs, f \in BOOLEAN : LogInsert(p, f)

SpecMainChat == Init /\ [][NextMainChat]_vars

\* ------------------------------------------------- notes: create and delete
MaxNotes == 2
NoteUsers == {OwnerOf(1)}
NoteContents == 1..MaxText

\* the id the notes table gives the n-th note
NoteId(n) == 200 + n

\* remove_note_from_vector_db(user_id, note_id): the chunks of the note are
\* deleted from the collection
remove_note_from_vector_db(coll, user, note_id) ==
    {c \in coll : ~(c.category = "note" /\ c.user_id = user /\ c.source_id = note_id)}

\* POST /notes (create_user_note): the row is created and the embedding is
\* scheduled as a background task
create_user_note(user, content) ==
    /\ nextNote <= MaxNotes
    /\ LET note == [id |-> NoteId(nextNote), user_id |-> user, content |-> content]
       IN /\ notes_table' = notes_table \cup {note}
          /\ tasks' = tasks \cup {[op |-> "embed", user |-> user, note |-> note]}
    /\ nextNote' = nextNote + 1
    /\ UNCHANGED <<chromaAdd, collection, nextUuid>>
    /\ UNCHANGED chatVars
    /\ UNCHANGED <<callVars, procVars, turnVars, visitorVars, profileVars>>

\* the background task of a create: embed_and_store_notes(user_id, [note])
RunEmbed(t) ==
    /\ t \in tasks /\ t.op = "embed"
    /\ collection' = embed_and_store_notes(collection, t.user, <<t.note>>).coll
    /\ tasks' = tasks \ {t}
    /\ UNCHANGED <<chromaAdd, nextUuid, notes_table, nextNote>>
    /\ UNCHANGED chatVars
    /\ UNCHANGED <<callVars, procVars, turnVars, visitorVars, profileVars>>

\* delete_note(note_id, user_id): whether a row of the user was deleted
delete_note(note_id, user) == \E n \in notes_table : n.id = note_id /\ n.user_id = user

\* DELETE /notes/{note_id} (delete_user_note): the row is deleted and the
\* removal from the index is scheduled as a background task; 404 when the
\* user has no such note
delete_user_note(user, note_id) ==
    /\ IF delete_note(note_id, user)
       THEN /\ notes_table' = {n \in notes_table : ~(n.id = note_id /\ n.user_id = user)}
            /\ tasks' = tasks \cup {[op |-> "remove", user |-> user,
                                     note |-> [id |-> note_id, user_id |-> user,
                                               content |-> Null]]}
       ELSE UNCHANGED <<notes_table, tasks>>
    /\ UNCHANGED <<chromaAdd, collection, nextUuid, nextNote>>
    /\ UNCHANGED chatVars
    /\ UNCHANGED <<callVars, procVars, turnVars, visitorVars, profileVars>>

\* the background task of a delete: remove_note_from_vector_db(user_id, note_id)
RunRemove(t) ==
    /\ t \in tasks /\ t.op = "remove"
    /\ collection' = remove_note_from_vector_db(collection, t.user, t.note.id)
    /\ tasks' = tasks \ {t}
    /\ UNCHANGED <<chromaAdd, nextUuid, notes_table, nextNote>>
    /\ UNCHANGED chatVars
    /\ UNCHANGED <<callVars, procVars, turnVars, visitorVars, profileVars>>

TaskInputs ==
    {[op |-> o, user |-> u, note |-> [id |-> NoteId(n), user_id |-> u, content |-> c]] :
        o \in {"embed", "remove"}, u \in NoteUsers, n \in 1..MaxNotes,
        c \in NoteContents \cup {Null}}

NextNotes ==
    \/ \E u \in NoteUsers, c \in NoteContents : create_user_note(u, c)
    \/ \E t \in TaskInputs : RunEmbed(t)
    \/ \E u \in NoteUsers, n \in 1..MaxNotes : delete_user_note(u, NoteId(n))
    \/ \E t \in TaskInputs : RunRemove(t)

SpecNotes == InitIndex /\ [][NextNotes]_vars

Limits == {1, default_limit}
Orders == {"forward", "reverse"}

Next ==
    \/ \E p \in Procs, b \in RequestedChatbots, v \in VisitorExtIds, e \in BOOLEAN :
          StartChat(p, b, v, e)
    \/ \E p \in Procs, b \in Chatbots, v \in VisitorExtIds : StartHistory(p, b, v)
    \/ \E p \in Procs : ConvQuery(p)
    \/ \E p \in Procs : ConvInsert(p)
    \/ \E p \in Procs : ConvRefetch(p)
    \/ \E p \in Procs, o \in ReadOutcomes : ReadHistory(p, o)
    \/ \E p \in Procs : LogTimestamp(p)
    \/ \E p \in Procs, f \in BOOLEAN : LogInsert(p, f)
    \/ \E p \in Procs, l \in Limits, o \in Orders, r \in ReadOutcomes :
          HistoryRead(p, l, o, r)
    \/ \E p \in Procs, c \in ConvIds, u \in Owners : StartDelete(p, c, u)
    \/ \E p \in Procs : DeleteMessages(p)
    \/ \E p \in Procs : DeleteConversation(p)
    \/ Tick

Spec == Init /\ [][Next]_vars

\* ================================================================ properties
Resolved(p) == req[p].kind \in {"chat", "history"} /\ req[p].conversation_id # Null

SamePair(p, q) ==
    /\ req[p].chatbot_id = req[q].chatbot_id
    /\ req[p].visitor_id = req[q].visitor_id

\* no conversation of p's pair was deleted since p's call began
NoDeleteSince(p) ==
    req[p].startDel = Cardinality(DeletedOf(req[p].chatbot_id, req[p].visitor_id))

AllPairs == Chatbots \X VisitorDbIds

Present(pair) == ConvRowsOf(pair[1], pair[2]) # {}

\* C1: all the resolve_conversation calls that run for the same pair, with no
\* admin delete of the pair in between, return the same conversation id,
\* whatever the interleaving of their steps.
C1_ConcurrentResolveSameId ==
    \A p \in Procs : \A q \in Procs :
        (Resolved(p) /\ Resolved(q) /\ SamePair(p, q) /\ NoDeleteSince(p) /\ NoDeleteSince(q))
            => req[p].conversation_id = req[q].conversation_id

\* two calls ran together while the pair had no conversation: one of them lost
\* the insert and refetched, and both hold the same id
C1_Witness ==
    \E p \in Procs : \E q \in Procs :
        /\ p # q
        /\ Resolved(p) /\ Resolved(q) /\ SamePair(p, q)
        /\ NoDeleteSince(p) /\ NoDeleteSince(q)
        /\ req[q].conflict
        /\ req[p].conversation_id = req[q].conversation_id

\* C2: in every reachable state there is at most one conversation row for each
\* (chatbot_id, visitor_id) pair.
C2_AtMostOneConversationPerPair ==
    \A pair \in AllPairs : Cardinality(ConvRowsOf(pair[1], pair[2])) <= 1

\* a pair whose conversation was deleted has a conversation again
C2_Witness ==
    \E pair \in AllPairs :
        /\ DeletedOf(pair[1], pair[2]) # {}
        /\ Cardinality(ConvRowsOf(pair[1], pair[2])) = 1

\* C3: a pair's conversation goes from absent to active only in the insert of a
\* chat turn, and from active to absent only in the last step of an admin
\* delete; a history read never creates one.
C3_OnlyFirstMessageCreates ==
    [][\A pair \in AllPairs :
          /\ (~Present(pair) /\ Present(pair)') =>
                \E p \in Procs : /\ pc[p] = "conv_insert"
                                 /\ pc'[p] # "conv_insert"
                                 /\ req[p].kind = "chat"
                                 /\ req[p].chatbot_id = pair[1]
                                 /\ req[p].visitor_id = pair[2]
          /\ (Present(pair) /\ ~Present(pair)') =>
                \E p \in Procs : /\ pc[p] = "d_conv"
                                 /\ ret'[p].status = "deleted"]_vars

\* C4: when delete_conversation(c) answers with success, the conversation row
\* is gone and neither the messages table nor the in-memory fallback holds a
\* message of c.
C4_DeleteLeavesNoMessage ==
    [][\A p \in Procs :
          (pc[p] = "d_conv" /\ ret'[p].status = "deleted") =>
              /\ \A c \in conversations' : c.id # req[p].conversation_id
              /\ \A m \in messages' : m.conversation_id # req[p].conversation_id
              /\ \A v \in VisitorDbIds : \A i \in 1..Len(in_memory_messages'[v]) :
                    in_memory_messages'[v][i].conversation_id # req[p].conversation_id]_vars

\* C5: in every reachable state each stored message references a conversation
\* row that exists.
C5_MessageHasConversation ==
    /\ \A m \in messages : \E c \in conversations : c.id = m.conversation_id
    /\ \A v \in VisitorDbIds : \A i \in 1..Len(in_memory_messages[v]) :
          \E c \in conversations : c.id = in_memory_messages[v][i].conversation_id

\* C6: of two messages of one conversation in the messages table, the one
\* appended later has the strictly greater created_at.
C6_TimestampsStrictlyIncrease ==
    \A m1 \in messages : \A m2 \in messages :
        (m1.conversation_id = m2.conversation_id /\ m1.id < m2.id)
            => m1.created_at < m2.created_at

\* C7: a history read answers with at most limit messages, oldest first when
\* the caller asked for forward order and newest first when it asked for
\* reverse order.
C7_ReadHonoursLimitAndOrder ==
    \A p \in Procs :
        (pc[p] = "done" /\ ret[p].status = "history") =>
            /\ Len(ret[p].history) <= req[p].limit
            /\ (req[p].order = "forward" => IsOldestFirst(ret[p].history))
            /\ (req[p].order = "reverse" => IsNewestFirst(ret[p].history))

\* C8: a history read for a (chatbot_id, visitor_id) pair answers only with
\* messages of that chatbot and that visitor.
C8_HistoryOnlyOfThePair ==
    \A p \in Procs :
        (pc[p] = "done" /\ ret[p].status = "history") =>
            \A i \in 1..Len(ret[p].history) :
                /\ ret[p].history[i].chatbot_id = req[p].chatbot_id
                /\ ret[p].history[i].visitor_id = req[p].visitor_id

\* the chunks the collection holds of one source entity
EntityChunks(coll, user, category, source) ==
    {c \in coll : c.user_id = user /\ c.category = category /\ c.source_id = source}

SourcedDocuments == {doc \in DocumentInputs : doc.id # Null}

C10_ReindexReplacesWholesale ==
    /\ \A doc \in SourcedDocuments : \A u \in DocUsers :
          LET saved == add_document_to_vector_db(collection, doc, doc.id, u)
          IN saved.ok =>
                EntityChunks(saved.coll, u, "document", doc.id) = DocumentChunks(doc, doc.id, u)
    /\ \A profile \in ProfileInputs : \A u \in IndexUsers :
          LET saved == add_profile_to_vector_db(collection, profile, u, TRUE)
          IN saved.ok =>
                EntityChunks(saved.coll, u, "profile", Null) = ProfileChunks(profile, u)

\* a note whose row was created and deleted, with no task of it left to run
NoteSettledDeleted(n) ==
    /\ n < nextNote
    /\ \A row \in notes_table : row.id # NoteId(n)
    /\ \A t \in tasks : t.note.id # NoteId(n)

\* C11: once a note is deleted and the background tasks scheduled for it have
\* run, the collection holds no chunk of that note.
C11_DeletedNoteLeavesIndex ==
    \A n \in 1..MaxNotes :
        NoteSettledDeleted(n) =>
            \A c \in collection : ~(c.category = "note" /\ c.source_id = NoteId(n))

\* the chunks put together again: the first whole, every other without the
\* overlap it shares with the one before
RECURSIVE Rejoin(_, _)
Rejoin(chunks, ov) ==
    IF chunks = <<>> THEN <<>>
    ELSE IF Len(chunks) = 1 THEN chunks[1]
    ELSE LET last == chunks[Len(chunks)]
         IN Rejoin(SubSeq(chunks, 1, Len(chunks) - 1), ov)
            \o SubSeq(last, Min(ov, Len(last)) + 1, Len(last))

\* C12: for every text, size and overlap smaller than the size, the chunks
\* rejoined without their overlaps are the text, and no chunk is longer than
\* the size.
C12_ChunksReconstructText ==
    (call.fn = "chunk" /\ result.done) =>
        /\ Rejoin(result.chunks, call.overlap) = call.text
        /\ \A k \in 1..Len(result.chunks) : Len(result.chunks[k]) <= call.size

\* a text of three or more overlapping chunks, the last one short
C12_Witness ==
    /\ call.fn = "chunk" /\ result.done
    /\ call.overlap > 0
    /\ Len(result.chunks) >= 3
    /\ Len(result.chunks[Len(result.chunks)]) < call.size

\* C13: for every query and every index state, rank returns at most
\* total_budget (n_results) results.
C13_AtMostBudget ==
    (call.fn = "rank" /\ result.done) => Len(result.results) <= call.n_results

\* the category queries found more than the budget and the budget was filled
C13_Witness ==
    /\ call.fn = "rank" /\ result.done
    /\ call.n_results > 0
    /\ Len(Merged(call)) > call.n_results
    /\ Len(result.results) = call.n_results

NonDecreasing(list) ==
    \A i \in 1..Len(list) : \A j \in i..Len(list) : list[i].distance <= list[j].distance

\* C14: the results rank returns are in non-decreasing order of distance,
\* after the results of all category queries have been merged.
C14_NonDecreasingDistance ==
    (call.fn = "rank" /\ result.done) => NonDecreasing(result.results)

\* several categories answered, their merged results were out of order, and
\* all of them are returned
C14_Witness ==
    /\ call.fn = "rank" /\ result.done
    /\ ~NonDecreasing(Merged(call))
    /\ Cardinality({Merged(call)[i].category : i \in 1..Len(Merged(call))}) >= 3
    /\ Len(result.results) = Len(Merged(call))

\* the call without failures on the index without the chunks of one category
WithoutCategory(c, cat) ==
    [c EXCEPT !.failing = {}, !.index = {e \in c.index : e.category # cat}]

\* C15: rank never raises; when one category's query fails the results of the
\* other categories are still returned, and when every query fails or the
\* index is unreachable the result list is empty.
C15_BestEffortNeverRaises ==
    (call.fn = "rank" /\ result.done) =>
        /\ ~result.raised
        /\ (call.unreachable \/ call.failing = Categories) => result.results = <<>>
        /\ \A cat \in Categories :
               (~call.unreachable /\ call.failing = {cat}) =>
                   result.results =
                       limit_to_n_results(
                           sorted_by_distance(Merged(WithoutCategory(call, cat)), 0),
                           call.n_results)

\* one category query failed on chunks it would have returned, and the chunks
\* of another category are returned
C15_Witness ==
    /\ call.fn = "rank" /\ result.done
    /\ ~call.unreachable
    /\ call.failing = {"document"}
    /\ \E e \in call.index : e.category = "document" /\ e.user_id = call.user_id
    /\ Len(result.results) >= 2

\* C16: every result of rank(query, tenant_id, visitor_id) is a chunk indexed
\* for tenant_id and every conversation result belongs to visitor_id, for all
\* index states and inputs, a missing tenant_id included.
C16_TenantIsolation ==
    (call.fn = "rank" /\ result.done) =>
        \A i \in 1..Len(result.results) :
            /\ result.results[i].user_id = call.user_id
            /\ result.results[i].category = "conversation" =>
                   result.results[i].visitor_id = call.visitor_id

\* C17: when the language model credentials are not configured the process
\* keeps running in demo mode and answers turns with the demo-mode reply.
C17_DemoModeKeepsRunning ==
    api_key = "missing" =>
        /\ server # "exited"
        /\ (call.fn = "generate" /\ result.done) => result.reply.kind = "demo"

Failed == call.fn = "generate" /\ result.done /\ call.outcome \notin {"ok", "prompt_error"}

\* C19: each provider failure class has its own fallback reply: a rate-limit
\* failure the rate_limited one, a connection failure the connection_failed
\* one, any other provider error the provider_error one.
C19_FailureTaxonomy ==
    Failed =>
        /\ call.outcome = "RateLimitError" => result.reply.kind = "rate_limited"
        /\ call.outcome = "APIConnectionError" => result.reply.kind = "connection_failed"
        /\ call.outcome \in {"AuthenticationError", "InternalServerError"} =>
               result.reply.kind = "provider_error"

\* C20: on a provider failure the generator does not raise and its reply is a
\* fixed string of the failure's class: it carries no text of the exception,
\* so two failures of one class have the same reply.
C20_ReplyHasNoExceptionText ==
    Failed =>
        /\ ~result.raised
        /\ result.reply.detail = Null

TurnDone == turn.pc = "done" /\ turn.entry \in Entries

ModelReply == {"generated", "provider_fallback"}

\* C21: when no conversation can be obtained for a turn, submit_turn aborts
\* with an error: no reply is returned as a successful response and no
\* message is persisted.
C21_NoConversationAborts ==
    (TurnDone /\ turn.failure \in {"visitor", "conversation"}) =>
        /\ turn.status # 200
        /\ turn.reply = "none"
        /\ turn.persisted = "no"

\* C22: a failure of retrieval or of the indexing of the turn does not abort
\* the turn: the generated reply is returned and the turn is persisted.
C22_RetrievalAndIngestionNeverAbort ==
    (TurnDone /\ (turn.search = "failed" \/ turn.index = "failed")) =>
        /\ turn.status = 200
        /\ turn.reply \in ModelReply
        /\ turn.persisted # "no"

\* retrieval failed, the index write failed, and the reply was returned
C22_Witness ==
    /\ TurnDone
    /\ turn.search = "failed" /\ turn.index = "failed"
    /\ turn.status = 200 /\ turn.reply = "generated" /\ turn.persisted = "table"

\* C23: when persisting the turn fails because the store is unavailable,
\* submit_turn still returns the generated reply, on every entry point.
C23_PersistFailureStillReplies ==
    (TurnDone /\ (turn.persisted = "memory" \/ turn.failure = "persist")) =>
        /\ turn.status = 200
        /\ turn.reply \in ModelReply

\* there is no client, the turn went to the in-memory list, and the public
\* handler returned the reply
C23_Witness ==
    /\ TurnDone
    /\ turn.entry = "public"
    /\ supabase = "none" /\ turn.persisted = "memory"
    /\ turn.status = 200 /\ turn.reply = "generated"

\* C24: a turn or a chatbot lookup that names a chatbot that does not exist
\* is answered with a not-found error, not with a reply and not with a
\* generic server error.
C24_MissingChatbotIsNotFound ==
    (turn.pc = "done" /\ turn.failure = "not_found") =>
        /\ turn.status = 404
        /\ turn.reply = "none"

C27_OwnerFromChatbotRecord ==
    turn.owner # Null => turn.owner = OwnerOf(turn.chatbot_id)

\* the caller named another owner and the turn was answered from the
\* chatbot's owner
C27_Witness ==
    /\ TurnDone
    /\ turn.target_user_id # Null
    /\ turn.target_user_id # OwnerOf(turn.chatbot_id)
    /\ turn.owner = OwnerOf(turn.chatbot_id)
    /\ turn.status = 200 /\ turn.reply = "generated"

\* C29: a profile update stores null for every field submitted as an empty
\* or whitespace-only string and every other submitted value unchanged, in
\* every storage mode, and the profile it returns shows the same.
C29_EmptyFieldsBecomeNull ==
    (call.fn = "update_profile" /\ result.done /\ result.success) =>
        \A f \in Submitted(call.data) :
            LET want == IF IsEmptyString(call.data[f]) THEN None ELSE call.data[f]
            IN result.stored[f] = want /\ result.profile[f] = want

CountOf(results, categories) ==
    Cardinality({i \in 1..Len(results) : results[i] \in categories})

\* C30: the grounding document holds at most 5 document chunks, 5 notes,
\* 3 profile snippets, 3 project snippets and 2 conversation snippets from
\* retrieval, whatever the number and the categories of the results.
C30_SectionCaps ==
    (call.fn = "prompt" /\ result.done) =>
        /\ Len(result.sections["document"]) <= 5
        /\ Len(result.sections["note"]) <= 5
        /\ Len(result.sections["profile"]) <= 3
        /\ Len(result.sections["project"]) <= 3
        /\ Len(result.sections["conversation"]) <= 2

\* more profile and unknown-category results than the profile section holds
\* were passed in, and the section was cut
C30_Witness ==
    /\ call.fn = "prompt" /\ result.done
    /\ CountOf(call.results, {"unknown"}) >= 2
    /\ CountOf(call.results, {"unknown", "profile"}) > 3
    /\ Len(result.sections["profile"]) = 3
    /\ Len(result.sections["document"]) = 1

\* C28: the recent turns placed in the grounding prompt are the most recent
\* messages of the conversation, at most 10, oldest first.
C28_PromptHistoryOldestFirst ==
    \A p \in Procs :
        (req[p].kind = "chat" /\ pc[p] \in {"log_ts", "log_insert", "done"}) =>
            /\ Len(ret[p].history) <= history_limit
            /\ IsOldestFirst(ret[p].history)

VisitorCallDone(p) == req[p].kind = "visitor" /\ pc[p] = "v_done"

\* C26: every call of resolve_visitor with the same external id, concurrent
\* first contacts included, returns the same internal id, and at most one
\* visitor row exists per external id.
C26_OneVisitorPerExternalId ==
    /\ \A p \in Procs : \A q \in Procs :
           (VisitorCallDone(p) /\ VisitorCallDone(q)
            /\ req[p].visitor_ext = req[q].visitor_ext) =>
               req[p].visitor_id = req[q].visitor_id
    /\ \A r1 \in visitor_rows : \A r2 \in visitor_rows :
           r1.external_id = r2.external_id => r1 = r2

\* two first contacts of one external id raced: one inserted, the other met
\* the conflict and refetched, and both hold the id of the one row
C26_Witness ==
    \E p \in Procs : \E q \in Procs :
        /\ p # q
        /\ VisitorCallDone(p) /\ VisitorCallDone(q)
        /\ req[p].visitor_ext = req[q].visitor_ext
        /\ req[q].conflict /\ ~req[p].conflict
        /\ req[p].visitor_id = req[q].visitor_id
        /\ Cardinality(RowsOfExternal(req[p].visitor_ext)) = 1

\* C31: a rank call of a tenant that has indexed chunks returns, in first
\* position, the nearest of all the tenant's chunks of the five categories
\* (profile, project, document, note and the visitor's conversation chunks):
\* the best match of any category, project included, wins.
TenantChunks(c) ==
    {e \in c.index :
        /\ e.user_id = c.user_id
        /\ e.category = "conversation" =>
              (c.include_conversation /\ e.visitor_id = c.visitor_id)}

C31_BestOfAnyCategoryFirst ==
    (/\ call.fn = "rank" /\ result.done
     /\ call.user_id # Null /\ call.n_results >= 1
     /\ call.failing = {} /\ ~call.unreachable
     /\ TenantChunks(call) # {})
        => /\ result.results # <<>>
           /\ \A e \in TenantChunks(call) : result.results[1].distance <= e.distance


\* C32: when the embedding call fails, the embedding function returns, without
\* raising, exactly one zero vector of the fixed dimension per input text, and
\* the ingestion of a document completes with every one of its chunks stored.
C32_FailedEmbeddingDegrades ==
    (call.fn = "embed" /\ result.done /\ call.outcome # "ok") =>
        LET n == IF call.input.kind = "str" THEN 1 ELSE Len(call.input.value)
            chunks == DocumentChunks(call.doc, call.doc.id, call.user_id)
        IN /\ ~result.embed.raised
           /\ Len(result.embed.embeddings) = n
           /\ \A i \in 1..n : result.embed.embeddings[i] = ZeroVector
           /\ call.doc.len > 0 =>
                 /\ result.ingest.ok
                 /\ {c.id : c \in result.ingest.stored} = {c.id : c \in chunks}
                 /\ \A c \in result.ingest.stored : c.embedding = ZeroVector

C32_Witness ==
    /\ call.fn = "embed" /\ result.done /\ call.outcome = "RateLimitError"
    /\ call.input.kind = "list" /\ Len(call.input.value) = MaxInputs
    /\ Len(result.embed.embeddings) = MaxInputs
    /\ call.doc.len > chunk_size
    /\ Cardinality(result.ingest.stored) >= 3
    /\ \A c \in result.ingest.stored : c.embedding = ZeroVector

\* C33: the store is selected once at start-up and every write goes to it: a
\* process that started with the durable client never writes a message into
\* the in-memory store (and one that started without it never writes a row
\* into the durable table).
C33_OneStoreForTheProcess ==
    /\ supabase = "client" => \A v \in DOMAIN in_memory_messages : in_memory_messages[v] = <<>>
    /\ supabase = "none" => messages = {}

\* C34: deleting a conversation is permitted only to its owner.  A delete
\* request by a user who does not own the conversation, or for a conversation
\* that does not exist, is rejected in the step that receives it and changes
\* neither the conversation rows nor the messages; and whenever a conversation
\* row or a message disappears, it belongs to a conversation whose owner has a
\* delete request in progress for it.
OwnsConversation(c, u) ==
    \E row \in conversations \cup deletedConvs : row.id = c /\ row.user_id = u

C34_DeleteOnlyByOwner ==
    [][/\ \A p \in Procs :
             (/\ pc[p] = "idle" /\ pc'[p] # "idle" /\ req'[p].kind = "delete"
              /\ ~OwnsConversation(req'[p].conversation_id, req'[p].user))
                 => /\ pc'[p] = "done"
                    /\ ret'[p].status \in {"forbidden", "http_error"}
                    /\ conversations' = conversations
                    /\ messages' = messages
       /\ \A m \in messages \ messages' :
             \E p \in Procs : /\ req[p].kind = "delete"
                              /\ req[p].conversation_id = m.conversation_id
                              /\ OwnsConversation(m.conversation_id, req[p].user)
       /\ \A c \in conversations \ conversations' :
             \E p \in Procs : /\ req[p].kind = "delete"
                              /\ req[p].conversation_id = c.id
                              /\ req[p].user = c.user_id]_vars

C34_Witness ==
    \E p \in Procs :
        /\ req[p].kind = "delete" /\ pc[p] = "done" /\ ret[p].status = "forbidden"
        /\ \E c \in conversations :
              /\ c.id = req[p].conversation_id /\ c.user_id # req[p].user
              /\ \E m \in messages : m.conversation_id = c.id

\* C35: every message that log_chat_message stored with success is returned by
\* a later get_chat_history for the same visitor and conversation whose limit
\* is at least the number of messages logged, whichever path stored it.
LoggedFor(v, c) ==
    {m \in messages : m.visitor_id = v /\ m.conversation_id = c}
    \cup (IF v \in DOMAIN in_memory_messages
          THEN {in_memory_messages[v][i] : i \in
                   {j \in 1..Len(in_memory_messages[v]) :
                       in_memory_messages[v][j].conversation_id = c}}
          ELSE {})

C35_LoggedTurnIsVisible ==
    [][\A p \in Procs :
          (/\ pc[p] = "h_read" /\ pc'[p] = "done" /\ ret'[p].status = "history"
           /\ req'[p].limit >= Cardinality(LoggedFor(req[p].visitor_id,
                                                      req[p].conversation_id)))
              => \A m \in LoggedFor(req[p].visitor_id, req[p].conversation_id) :
                    \E i \in 1..Len(ret'[p].history) : ret'[p].history[i] = m]_vars

\* C36: profile data is isolated per tenant in every storage mode: a profile
\* update or a project add or delete performed for one tenant never changes
\* the profile or the project list that get_profile_data returns for another.
C36_ProfileIsolation ==
    [][(call'.fn = "tenant_op"
        /\ call'.op \in {"update_profile_data", "add_project", "delete_project"})
          => \A b \in Owners \ {call'.user_id} :
                get_profile_data(b)' = get_profile_data(b)]_vars

\* C37: for every persisted turn within the history window, both the
\* visitor's message and the reply given to it appear in the recent-history
\* section of the prompt of the next turn.
C37_BothSidesInPrompt ==
    (call.fn = "format_history" /\ result.done) =>
        \A i \in 1..Len(call.chat_history) :
            /\ \E k \in 1..Len(result.lines) :
                  result.lines[k] = [role |-> "User", text |-> call.chat_history[i].message]
            /\ \E k \in 1..Len(result.lines) :
                  result.lines[k] = [role |-> "Assistant",
                                     text |-> call.chat_history[i].response]

====
